---- MODULE Spec2Model ----
(***************************************************************************)
(* A model of SDPLC, a simulated PLC that exposes a registry of nodes over *)
(* OPC UA and Modbus and mirrors them to an upstream device.               *)
(*                                                                         *)
(*   SpecCodec  the register codec (sdplc/modbus/__init__.py)              *)
(*   Spec       the role-based engine (sdplc/sdplc.py)                     *)
(*   SpecPLC    the dual-server engine (sdplc/plc.py with sdplc/modbus.py) *)
(*   SpecModbus        one slave of the Modbus server (sdplc/modbus.py)    *)
(*   SpecConfig        the configuration file (sdplc/schemas.py)           *)
(*   SpecRegistry      the node registry of sdplc/sdplc.py                 *)
(*   SpecWords         encoder and the two decoders on any word sequence   *)
(*   SpecOpcuaClient   read and write of sdplc/opcua/client.py             *)
(*   SpecBrowseLive    browse_and_find_node of sdplc/opcua/client.py       *)
(*   SpecModbusClient  the session of sdplc/modbus/client.py               *)
(*   SpecPlant         nodes of several OPC UA namespaces (sdplc/sdplc.py) *)
(*   SpecRunning       add_Node after the servers were started             *)
(*   SpecWriter        a register write of sdplc/modbus.py word by word    *)
(*                                                                         *)
(* Python values are records [t, v]: t is the Python type ("bool", "int")  *)
(* and v the number (True is 1), so that Python's == is equality of v.     *)
(***************************************************************************)
EXTENDS Integers, Sequences, FiniteSets, TLC

VARIABLES
    \* ---- codec harness
    cin,        \* the codec input [value, size, byte_order, word_order]
    cregs,      \* the result of encoder on cin
    cout,       \* the result of decoder on cregs
    cpc,        \* "in" | "enc" | "dec"
    \* ---- the servers (both engines)
    modbusServer,   \* SimPLCModBus: [slaves, slaves_context, byte_order, word_order]
    opcuaServer,    \* SDPLCOPCUAServer: [namespaces, nodes, variables]
    started,        \* the start events of t = 0 have run
    \* ---- sdplc.py
    config,         \* SDPLC.config: [server, client, ...]
    nodes,          \* SDPLC.nodes
    reconcilers,    \* indices of the nodes whose sync_node event is registered
    upstreamModbus, \* the upstream Modbus device: [coils, registers]
    upstreamOpcua,  \* the upstream OPC UA server: node id -> value
    last,           \* what the last handler execution read, did and called
    \* ---- plc.py
    variables,      \* SDPLC.variables
    \* ---- opcua/client.py
    browse,         \* a call of browse_and_find_node: [refs, name, pc, ...]
    \* ---- modbus/client.py
    modbusClient,   \* SDPLCModBusClient: [_config, _client]
    \* ---- opcua/client.py
    opcuaClient,    \* SDPLCOPCUAClient: [connected]
    \* ---- modbus.py
    writer          \* a call of write_holding_register / write_input_register

codecVars == <<cin, cregs, cout, cpc>>

serverVars == <<modbusServer, opcuaServer, started>>

sdplcVars == <<config, nodes, reconcilers, upstreamModbus, upstreamOpcua,
               last>>

\* what the engine of plc.py leaves alone
otherThanPlc ==
    <<cin, cregs, cout, cpc, config, nodes, reconcilers, upstreamModbus,
      upstreamOpcua, browse, modbusClient, opcuaClient, writer>>

\* what the engine of sdplc.py leaves alone
otherThanSdplc == <<cin, cregs, cout, cpc, variables, browse, modbusClient,
                    opcuaClient, writer>>

vars == <<cin, cregs, cout, cpc, modbusServer, opcuaServer, started,
          config, nodes, reconcilers, upstreamModbus, upstreamOpcua,
          last, variables, browse, modbusClient, opcuaClient, writer>>

(***************************************************************************)
(* Python values                                                           *)
(***************************************************************************)
PyBool(b) == [t |-> "bool", v |-> IF b THEN 1 ELSE 0]

PyInt(n) == [t |-> "int", v |-> n]

\* bool(x)
ToBool(x) == [t |-> "bool", v |-> IF x.v # 0 THEN 1 ELSE 0]

\* x == y on Python numbers: True == 1
PyEq(x, y) == x.v = y.v

\* isinstance(x, int): bool is a subclass of int
IsInstanceInt(x) == x.t \in {"bool", "int"}

(***************************************************************************)
(* Register codec: pymodbus BinaryPayloadBuilder / BinaryPayloadDecoder as *)
(* driven by encoder and decoder.  Bytes are 0..255, registers 0..65535.   *)
(***************************************************************************)
RECURSIVE ShiftRight8(_, _)
\* v >> (8*k) on a two's-complement integer (floor division)
ShiftRight8(v, k) == IF k = 0 THEN v ELSE ShiftRight8(v \div 256, k - 1)

\* struct.pack("!h" | "!i" | "!q", v): n big-endian two's-complement bytes
PackBE(v, n) == [k \in 1..n |-> ShiftRight8(v, n - k) % 256]

RECURSIVE HornerBytes(_, _, _)
HornerBytes(bytes, k, acc) ==
    IF k > Len(bytes) THEN acc
    ELSE HornerBytes(bytes, k + 1, acc * 256 + bytes[k])

\* a variant of UnpackBE that reads the bytes as an unsigned integer
UnpackUnsigned(bytes) == HornerBytes(bytes, 1, 0)

\* struct.unpack("!h" | "!i" | "!q", bytes): the first byte carries the sign
UnpackBE(bytes) ==
    HornerBytes(bytes, 2, IF bytes[1] >= 128 THEN bytes[1] - 256 ELSE bytes[1])

\* array("H", bytes).byteswap(): the two bytes of every 16-bit word swapped
ByteSwap(bytes) ==
    [k \in 1..Len(bytes) |-> IF k % 2 = 1 THEN bytes[k + 1] ELSE bytes[k - 1]]

\* a variant of WordReverse that leaves the words in their order
WordKeep(bytes) == bytes

\* array("H", bytes).reverse(): the order of the 16-bit words reversed
WordReverse(bytes) ==
    [k \in 1..Len(bytes) |->
        LET w == (Len(bytes) \div 2) - ((k + 1) \div 2)   \* source word, 0-based
        IN  bytes[2 * w + (IF k % 2 = 1 THEN 1 ELSE 2)]]

\* BinaryPayloadBuilder._pack_words / BinaryPayloadDecoder._unpack_words
SwapWords(bytes, byte_order, word_order) ==
    LET a == IF byte_order = "little" THEN ByteSwap(bytes) ELSE bytes
    IN  IF word_order = "little" THEN WordReverse(a) ELSE a

\* BinaryPayloadBuilder.to_registers: unpack("!H") of every two bytes
ToRegisters(bytes) ==
    [k \in 1..(Len(bytes) \div 2) |-> bytes[2 * k - 1] * 256 + bytes[2 * k]]

\* BinaryPayloadDecoder.fromRegisters: pack("!H") of every register
FromRegisters(regs) ==
    [k \in 1..(2 * Len(regs)) |->
        IF k % 2 = 1 THEN regs[(k + 1) \div 2] \div 256 ELSE regs[k \div 2] % 256]

\* the range struct.pack accepts for a signed integer of size bits (64-bit
\* integers beyond 32 bits are outside the integers of the model)
InRange(v, size) ==
    size = 16 => (v >= -32768 /\ v <= 32767)

EncodeInt(v, size, byte_order, word_order) ==
    IF size = 16
    THEN \* add_16bit_int: pack(byteorder + "h")
         ToRegisters(IF byte_order = "little"
                     THEN ByteSwap(PackBE(v, 2)) ELSE PackBE(v, 2))
    ELSE \* add_32bit_int / add_64bit_int: _pack_words
         ToRegisters(SwapWords(PackBE(v, size \div 8), byte_order, word_order))

RECURSIVE Pow2(_)
Pow2(k) == IF k = 0 THEN 1 ELSE 2 * Pow2(k - 1)

RECURSIVE Log2Floor(_)
Log2Floor(a) == IF a < 2 THEN 0 ELSE 1 + Log2Floor(a \div 2)

\* struct.pack("!f" | "!d", v) as big-endian words, for the floats of the
\* model: integral values of magnitude below 2^24, which binary32 and
\* binary64 both hold exactly (sign, biased exponent, fraction)
PackFloatWords(v, size) ==
    IF v = 0 THEN [k \in 1..(size \div 16) |-> 0]
    ELSE LET s == IF v < 0 THEN 1 ELSE 0
             a == IF v < 0 THEN -v ELSE v
             e == Log2Floor(a)
             frac == (a - Pow2(e)) * Pow2(23 - e)      \* the top 23 fraction bits
         IN  IF size = 32
             THEN <<s * 32768 + (e + 127) * 128 + frac \div 65536, frac % 65536>>
             ELSE <<s * 32768 + (e + 1023) * 16 + frac \div Pow2(19),
                    (frac % Pow2(19)) \div 8, (frac % 8) * 8192, 0>>

\* struct.unpack("!f" | "!d", bytes) on big-endian words; a bit pattern that
\* is no integral float of the model is kept as the opaque float [raw]
UnpackFloatWords(w) ==
    LET s == w[1] \div 32768
        wide == Len(w) = 4
        ex == IF wide THEN (w[1] % 32768) \div 16 ELSE (w[1] % 32768) \div 128
        e == ex - (IF wide THEN 1023 ELSE 127)
        exact == IF wide THEN w[4] = 0 /\ w[3] % 8192 = 0 /\ w[2] < 8192 ELSE TRUE
        frac == IF wide
                THEN (w[1] % 16) * Pow2(19) + w[2] * 8 + w[3] \div 8192
                ELSE (w[1] % 128) * 65536 + w[2]
    IN  IF \A k \in 1..Len(w) : w[k] = 0 THEN [t |-> "float", v |-> 0]
        ELSE IF exact /\ e >= 0 /\ e <= 23 /\ frac % Pow2(23 - e) = 0
             THEN [t |-> "float",
                   v |-> (IF s = 1 THEN -1 ELSE 1) * ((Pow2(23) + frac) \div Pow2(23 - e))]
             ELSE [t |-> "float", raw |-> w]

\* a variant of encoder that packs a float at every width, 16 bits as 32
encoder_float_any_width(value, size, byte_order, word_order) ==
    IF IsInstanceInt(value)
    THEN IF ~InRange(value.v, size)
         THEN [ok |-> FALSE, err |-> "struct.error", regs |-> <<>>]
         ELSE [ok |-> TRUE, err |-> "",
               regs |-> EncodeInt(value.v, size, byte_order, word_order)]
    ELSE [ok |-> TRUE, err |-> "",
          regs |-> ToRegisters(SwapWords(
                       FromRegisters(PackFloatWords(value.v,
                                         IF size = 16 THEN 32 ELSE size)),
                       byte_order, word_order))]

\* encoder(value, size, byte_order, word_order)
encoder(value, size, byte_order, word_order) ==
    IF IsInstanceInt(value)
    THEN IF ~InRange(value.v, size)
         THEN [ok |-> FALSE, err |-> "struct.error", regs |-> <<>>]
         ELSE [ok |-> TRUE, err |-> "",
               regs |-> EncodeInt(value.v, size, byte_order, word_order)]
    ELSE IF size = 16
         THEN [ok |-> FALSE, err |-> "ValueError", regs |-> <<>>]
         ELSE [ok |-> TRUE, err |-> "",
               regs |-> ToRegisters(SwapWords(
                            FromRegisters(PackFloatWords(value.v, size)),
                            byte_order, word_order))]

DecodeInt(bits, byte_order, word_order) ==
    IF Len(bits) = 1
    THEN \* decode_16bit_int: unpack(byteorder + "h")
         UnpackBE(IF byte_order = "little"
                  THEN ByteSwap(FromRegisters(bits)) ELSE FromRegisters(bits))
    ELSE \* decode_32bit_int / decode_64bit_int: _unpack_words
         UnpackBE(SwapWords(FromRegisters(bits), byte_order, word_order))

\* decoder(bits, type, byte_order, word_order)
decoder(bits, type, byte_order, word_order) ==
    IF type = "float" /\ Len(bits) \in {2, 4}
    THEN [ok |-> TRUE, err |-> "",
          value |-> UnpackFloatWords(ToRegisters(SwapWords(
                        FromRegisters(bits), byte_order, word_order)))]
    ELSE IF type = "int" /\ Len(bits) \in {1, 2, 4}
    THEN [ok |-> TRUE, err |-> "",
          value |-> PyInt(DecodeInt(bits, byte_order, word_order))]
    ELSE [ok |-> FALSE, err |-> "ValueError", value |-> PyInt(0)]

(***************************************************************************)
(* Python lists, indexed from 0, as sequences.                             *)
(***************************************************************************)
Min(a, b) == IF a < b THEN a ELSE b

Max(a, b) == IF a > b THEN a ELSE b

\* l[a:b]
Slice(l, a, b) == SubSeq(l, Min(a, Len(l)) + 1, Min(b, Len(l)))

\* l[a:b] = new
SliceAssign(l, a, b, new) ==
    LET lo == Min(a, Len(l))
        hi == Max(lo, Min(b, Len(l)))
    IN  SubSeq(l, 1, lo) \o new \o SubSeq(l, hi + 1, Len(l))

\* the byte and word orders of the codec
Endian == {"big", "little"}

\* l[i] exists
HasIndex(l, i) == i >= 0 /\ i < Len(l)

\* any(l)
any(l) == \E k \in 1..Len(l) : l[k]

(***************************************************************************)
(* Modbus server: ModBusSlave and SimPLCModBus (sdplc/modbus.py).  The     *)
(* tables hold MemSize entries.  A coil is stored as 0 or 1.               *)
(***************************************************************************)
MemSize == 4

Ok(x) == [ok |-> TRUE, err |-> "", val |-> x]

Raise(e, x) == [ok |-> FALSE, err |-> e, val |-> x]

\* ModBusSlave.__init__
ModBusSlave(id) ==
    [id |-> id,
     coils |-> <<>>,
     coils_memory |-> [k \in 1..MemSize |-> 0],
     coils_memory_occupancy |-> [k \in 1..MemSize |-> FALSE],
     discrete_inputs |-> <<>>,
     discrete_inputs_memory |-> [k \in 1..MemSize |-> 0],
     discrete_inputs_memory_occupancy |-> [k \in 1..MemSize |-> FALSE],
     holding_registers |-> <<>>,
     holding_registers_memory |-> [k \in 1..MemSize |-> 0],
     holding_registers_memory_occupancy |-> [k \in 1..MemSize |-> FALSE],
     input_registers |-> <<>>,
     input_registers_memory |-> [k \in 1..MemSize |-> 0],
     input_registers_memory_occupancy |-> [k \in 1..MemSize |-> FALSE]]

\* ModBusSlave.add_coil: the slave afterwards, or the error raised
add_coil(s, address, value) ==
    IF ~HasIndex(s.coils_memory_occupancy, address) THEN Raise("IndexError", s)
    ELSE IF s.coils_memory_occupancy[address + 1] THEN Raise("ValueError", s)
    ELSE Ok([s EXCEPT
            !.coils = Append(@, [slave |-> s.id, address |-> address,
                                 value |-> value.v]),
            !.coils_memory[address + 1] = value.v,
            !.coils_memory_occupancy[address + 1] = TRUE])

\* ModBusSlave.add_discrete_input
add_discrete_input(s, address, value) ==
    IF ~HasIndex(s.discrete_inputs_memory_occupancy, address)
    THEN Raise("IndexError", s)
    ELSE IF s.discrete_inputs_memory_occupancy[address + 1]
    THEN Raise("ValueError", s)
    ELSE Ok([s EXCEPT
            !.discrete_inputs = Append(@, [slave |-> s.id, address |-> address,
                                           value |-> value.v]),
            !.discrete_inputs_memory[address + 1] = value.v,
            !.discrete_inputs_memory_occupancy[address + 1] = TRUE])

\* the register metadata add_holding_register / add_input_register append
RegisterMeta(s, address, value, size) ==
    [slave |-> s.id, address |-> address, value |-> value, size |-> size,
     type |-> IF IsInstanceInt(value) THEN "int" ELSE "float"]

\* ModBusSlave.add_holding_register; the metadata is appended before the
\* value is encoded
add_holding_register(s, address, value, size, byte_order, word_order) ==
    LET n == size \div 16
        bits == encoder(value, size, byte_order, word_order)
        listed == [s EXCEPT !.holding_registers =
                       Append(@, RegisterMeta(s, address, value, size))]
    IN  IF any(Slice(s.holding_registers_memory_occupancy, address, address + n))
        THEN Raise("ValueError", s)
        ELSE IF ~bits.ok THEN Raise(bits.err, listed)
        ELSE Ok([listed EXCEPT
                !.holding_registers_memory =
                    SliceAssign(@, address, address + n, bits.regs),
                !.holding_registers_memory_occupancy =
                    SliceAssign(@, address, address + n, [k \in 1..n |-> TRUE])])

\* ModBusSlave.add_input_register
add_input_register(s, address, value, size, byte_order, word_order) ==
    LET n == size \div 16
        bits == encoder(value, size, byte_order, word_order)
        listed == [s EXCEPT !.input_registers =
                       Append(@, RegisterMeta(s, address, value, size))]
    IN  IF any(Slice(s.input_registers_memory_occupancy, address, address + n))
        THEN Raise("ValueError", s)
        ELSE IF ~bits.ok THEN Raise(bits.err, listed)
        ELSE Ok([listed EXCEPT
                !.input_registers_memory =
                    SliceAssign(@, address, address + n, bits.regs),
                !.input_registers_memory_occupancy =
                    SliceAssign(@, address, address + n, [k \in 1..n |-> TRUE])])

\* ModBusSlave.initialize: the data blocks copy the memory lists
initialize(s) ==
    [c |-> s.coils_memory, d |-> s.discrete_inputs_memory,
     h |-> s.holding_registers_memory, i |-> s.input_registers_memory]

\* SimPLCModBus.__init__
SimPLCModBus ==
    [slaves |-> <<>>, slaves_context |-> <<>>,
     byte_order |-> "big", word_order |-> "big"]

\* SimPLCModBus.config
ModbusConfig(mb, byte_order, word_order) ==
    [mb EXCEPT !.byte_order = byte_order, !.word_order = word_order]

\* SimPLCModBus.create_slave
create_slave(mb, id) ==
    [mb EXCEPT !.slaves = (id :> ModBusSlave(id)) @@ @]

\* SimPLCModBus.init: a context for every slave there is now
ModbusInit(mb) ==
    [mb EXCEPT !.slaves_context =
        [id \in DOMAIN mb.slaves |-> initialize(mb.slaves[id])] @@ @]

\* self.slaves[slave].add_...: the server afterwards, or the error raised
OnSlave(mb, slave, r) ==
    [ok |-> r.ok, err |-> r.err, val |-> [mb EXCEPT !.slaves[slave] = r.val]]

\* SimPLCModBus.create_coil
create_coil(mb, slave, address, value) ==
    IF slave \notin DOMAIN mb.slaves THEN Raise("KeyError", mb)
    ELSE OnSlave(mb, slave, add_coil(mb.slaves[slave], address, value))

\* SimPLCModBus.create_discrete_input
create_discrete_input(mb, slave, address, value) ==
    IF slave \notin DOMAIN mb.slaves THEN Raise("KeyError", mb)
    ELSE OnSlave(mb, slave, add_discrete_input(mb.slaves[slave], address, value))

\* SimPLCModBus.create_holding_register
create_holding_register(mb, slave, address, value, size) ==
    IF slave \notin DOMAIN mb.slaves THEN Raise("KeyError", mb)
    ELSE OnSlave(mb, slave,
                 add_holding_register(mb.slaves[slave], address, value, size,
                                      mb.byte_order, mb.word_order))

\* SimPLCModBus.create_input_register
create_input_register(mb, slave, address, value, size) ==
    IF slave \notin DOMAIN mb.slaves THEN Raise("KeyError", mb)
    ELSE OnSlave(mb, slave,
                 add_input_register(mb.slaves[slave], address, value, size,
                                    mb.byte_order, mb.word_order))

\* ModbusSequentialDataBlock.getValues(address, 1)[0] of table tbl
ReadBit(mb, slave, tbl, address) ==
    IF slave \notin DOMAIN mb.slaves_context THEN Raise("KeyError", PyBool(FALSE))
    ELSE IF ~HasIndex(mb.slaves_context[slave][tbl], address)
    THEN Raise("IndexError", PyBool(FALSE))
    ELSE Ok(PyBool(mb.slaves_context[slave][tbl][address + 1] # 0))

\* SimPLCModBus.read_coil
read_coil(mb, slave, address) == ReadBit(mb, slave, "c", address)

\* SimPLCModBus.read_discrete_input
read_discrete_input(mb, slave, address) == ReadBit(mb, slave, "d", address)

\* ModbusSequentialDataBlock.setValues(address, value) of table tbl, then the
\* value read back
WriteBit(mb, slave, tbl, address, value) ==
    IF slave \notin DOMAIN mb.slaves_context THEN Raise("KeyError", mb)
    ELSE Ok([mb EXCEPT !.slaves_context[slave][tbl] =
                SliceAssign(@, address, address + 1, <<value.v>>)])

\* SimPLCModBus.write_coil
write_coil(mb, slave, address, value) == WriteBit(mb, slave, "c", address, value)

\* SimPLCModBus.write_discrete_input
write_discrete_input(mb, slave, address, value) ==
    WriteBit(mb, slave, "d", address, value)

\* SimPLCModBus.decoder: the width is taken as len(bits) * 8, so a list of
\* 2, 4 or 8 words is decoded as a value of 16, 32 or 64 bits, which the
\* payload decoder reads from the first half of the words
SimPLCModBusDecoder(bits, type, byte_order, word_order) ==
    IF Len(bits) \in {2, 4, 8}
    THEN decoder(SubSeq(bits, 1, Len(bits) \div 2), type, byte_order, word_order)
    ELSE [ok |-> FALSE, err |-> "ValueError", value |-> PyInt(0)]

\* read_holding_register / read_input_register: the metadata is looked up
\* in the list metas at index address
ReadRegister(mb, slave, tbl, metas, address) ==
    IF slave \notin DOMAIN mb.slaves_context THEN Raise("KeyError", PyInt(0))
    ELSE IF ~HasIndex(metas, address) THEN Raise("IndexError", PyInt(0))
    ELSE LET m == metas[address + 1]
             bits == Slice(mb.slaves_context[slave][tbl], address,
                           address + m.size \div 16)
             r == SimPLCModBusDecoder(bits, m.type, mb.byte_order, mb.word_order)
         IN  IF r.ok THEN Ok(r.value) ELSE Raise(r.err, PyInt(0))

\* SimPLCModBus.read_holding_register
read_holding_register(mb, slave, address) ==
    IF slave \notin DOMAIN mb.slaves THEN Raise("KeyError", PyInt(0))
    ELSE ReadRegister(mb, slave, "h", mb.slaves[slave].holding_registers, address)

\* SimPLCModBus.read_input_register
read_input_register(mb, slave, address) ==
    IF slave \notin DOMAIN mb.slaves THEN Raise("KeyError", PyInt(0))
    ELSE ReadRegister(mb, slave, "i", mb.slaves[slave].input_registers, address)

RECURSIVE SetWords(_, _, _, _)
\* for i in range(size // 16): register.setValues(address + i, bits[i])
SetWords(mem, address, bits, i) ==
    IF i > Len(bits) THEN mem
    ELSE SetWords(SliceAssign(mem, address + i - 1, address + i, <<bits[i]>>),
                  address, bits, i + 1)

\* write_holding_register / write_input_register: the words are stored,
\* then read back and decoded for the return value
WriteRegister(mb, slave, tbl, metas, address, value) ==
    IF slave \notin DOMAIN mb.slaves_context THEN Raise("KeyError", mb)
    ELSE IF ~HasIndex(metas, address) THEN Raise("IndexError", mb)
    ELSE LET m == metas[address + 1]
             bits == encoder(value, m.size, mb.byte_order, mb.word_order)
             stored == [mb EXCEPT !.slaves_context[slave][tbl] =
                           SetWords(@, address, bits.regs, 1)]
             back == SimPLCModBusDecoder(
                         Slice(stored.slaves_context[slave][tbl], address,
                               address + m.size \div 16),
                         m.type, mb.byte_order, mb.word_order)
         IN  IF ~bits.ok THEN Raise(bits.err, mb)
             ELSE IF ~back.ok THEN Raise(back.err, stored)
             ELSE Ok(stored)

\* SimPLCModBus.write_holding_register
write_holding_register(mb, slave, address, value) ==
    IF slave \notin DOMAIN mb.slaves THEN Raise("KeyError", mb)
    ELSE WriteRegister(mb, slave, "h", mb.slaves[slave].holding_registers,
                       address, value)

\* SimPLCModBus.write_input_register
write_input_register(mb, slave, address, value) ==
    IF slave \notin DOMAIN mb.slaves THEN Raise("KeyError", mb)
    ELSE WriteRegister(mb, slave, "i", mb.slaves[slave].input_registers,
                       address, value)

(***************************************************************************)
(* OPC UA server: SDPLCOPCUAServer (sdplc/opcua/server.py).                *)
(***************************************************************************)
\* SDPLCOPCUAServer.__init__
SDPLCOPCUAServer == [namespaces |-> {}, nodes |-> <<>>, variables |-> <<>>]

\* SDPLCOPCUAServer.register_namespace
register_namespace(srv, namespace) ==
    [srv EXCEPT !.namespaces = @ \cup {namespace}]

\* SDPLCOPCUAServer.register_node: the object is created in the namespace
\* and stored under its qualified name, replacing an object of that name;
\* an unknown namespace is logged
register_node(srv, qualified_name, namespace) ==
    IF namespace \in srv.namespaces
    THEN [srv EXCEPT !.nodes =
            (qualified_name :> [bname |-> qualified_name,
                                namespace |-> namespace]) @@ @]
    ELSE srv

\* SDPLCOPCUAServer.register_variable with the parent given as a node: the
\* variable is created under that object, in the namespace of the object
register_variable(srv, qualified_name, writeable, value, node) ==
    [srv EXCEPT !.variables =
        (qualified_name :> [value |-> value, writable |-> writeable,
                            node |-> node]) @@ @]

(***************************************************************************)
(* The role-based engine: SDPLC of sdplc/sdplc.py.                         *)
(***************************************************************************)
NoModbus ==
    [present |-> FALSE, slave |-> 0, address |-> 0, type |-> "c",
     register_size |-> 16]

\* ModBusRegConfig
ModBusRegConfig(slave, address, type, register_size) ==
    [present |-> TRUE, slave |-> slave, address |-> address, type |-> type,
     register_size |-> register_size]

NoOpcua ==
    [present |-> FALSE, namespace |-> "", node_qualified_name |-> "",
     node_id |-> 0]

\* OPCUANodeConfig; node_id 0 is None
OPCUANodeConfig(namespace, node_qualified_name) ==
    [present |-> TRUE, namespace |-> namespace,
     node_qualified_name |-> node_qualified_name, node_id |-> 0]

\* Node
Node(qualified_name, value, modbus, opcua) ==
    [qualified_name |-> qualified_name, value |-> value, modbus |-> modbus,
     opcua |-> opcua]

\* the nodes add_Node is called with
Configured ==
    <<Node("Blender", PyBool(FALSE), ModBusRegConfig(0, 0, "c", 16),
           OPCUANodeConfig("plant", "root")),
      Node("Sensor", PyBool(TRUE), ModBusRegConfig(0, 0, "d", 16),
           OPCUANodeConfig("plant", "root")),
      Node("Level", PyInt(7), ModBusRegConfig(0, 0, "h", 16),
           OPCUANodeConfig("plant", "root")),
      Node("Flow", PyInt(7), ModBusRegConfig(1, 0, "i", 16),
           OPCUANodeConfig("plant", "tank")),
      Node("Valve", PyBool(FALSE), NoModbus, NoOpcua)>>

NodePool == {Configured[k] : k \in DOMAIN Configured}

\* the nodes of Configured that may be added next: a configuration names a
\* node once and init adds the nodes in the order of the configuration
Addable ==
    {Configured[k] : k \in {k \in DOMAIN Configured :
        \A i \in 1..Len(nodes), j \in k..Len(Configured) :
            nodes[i].qualified_name # Configured[j].qualified_name}}

\* the registry holds at most MaxNodes nodes
MaxNodes == 2

\* the values a Bool node and an Int node are written with, by write_node
\* and by external clients
BoolVals == {PyBool(FALSE), PyBool(TRUE)}

IntVals == {PyInt(7), PyInt(40000)}

ValsLike(value) == IF value.t = "bool" THEN BoolVals ELSE IntVals

\* the words an external Modbus client writes into a holding register
WordVals == {42}

\* the upstream OPC UA server: the node ids browse_and_find_node finds by
\* browse name (0: not found)
UpstreamBrowse(name) == IF name = "root" THEN 1 ELSE 0

UpstreamIds == {1}

\* the upstream Modbus device answers for these coils and registers
UpstreamKeys == {<<0, 0>>, <<1, 1>>}

Roles ==
    {<<"OPCUA", "None">>, <<"OPCUA", "ModBus">>, <<"ModBus", "None">>,
     <<"ModBus", "OPCUA">>}

NoLast ==
    [op |-> "none", name |-> "", read |-> FALSE, seen |-> PyInt(0),
     before |-> PyInt(0), after |-> PyInt(0), err |-> "", adopted |-> FALSE,
     upstream |-> PyInt(0), upstream_ok |-> FALSE, calls |-> <<>>,
     ext |-> FALSE, via |-> "", written |-> PyInt(0), dirty |-> FALSE]

NodeIndex(name) ==
    IF \E i \in 1..Len(nodes) : nodes[i].qualified_name = name
    THEN CHOOSE i \in 1..Len(nodes) :
            /\ nodes[i].qualified_name = name
            /\ \A j \in 1..(i - 1) : nodes[j].qualified_name # name
    ELSE 0

\* a Modbus client call: the coroutine is created; it runs only if awaited
ClientCall(fn, address, slave, values) ==
    [fn |-> fn, address |-> address, slave |-> slave, values |-> values]

\* SDPLC.__init__ and SDPLC.init up to the nodes of the configuration
SdplcInit ==
    /\ \E r \in Roles, cfg \in BOOLEAN, sb \in Endian, sw \in Endian,
          cb \in Endian, cw \in Endian :
         /\ sb = "big" /\ sw = "big" /\ cw = "big"
         /\ cb = IF cfg THEN "little" ELSE "big"
         /\ r[2] # "ModBus" => cfg = FALSE
         /\ config = [server |-> r[1], client |-> r[2],
                      modbus_client_config |-> cfg,
                      byte_order |-> cb, word_order |-> cw]
         /\ modbusServer = ModbusConfig(SimPLCModBus, sb, sw)
    /\ opcuaServer = SDPLCOPCUAServer
    /\ started = FALSE
    /\ nodes = <<>>
    /\ reconcilers = {}
    /\ upstreamModbus = [tbl \in {"c", "d", "h", "i"} |-> [k \in UpstreamKeys |-> 0]]
    /\ upstreamOpcua = [id \in UpstreamIds |-> PyInt(0)]
    /\ last = NoLast

\* add_Node, server == "OPCUA": the namespace and its object are registered
\* when the namespace is new, then the variable under the object.  Inside
\* the running event loop asyncio.run raises and the server logs the error.
AddOpcua(srv, n, in_loop) ==
    IF ~(config.server = "OPCUA" /\ n.opcua.present) THEN Ok(srv)
    ELSE LET ns == "http://ulfaric/SDPLC/" \o n.opcua.namespace
             s1 == IF ns \notin srv.namespaces /\ ~in_loop
                   THEN register_node(register_namespace(srv, ns),
                                      n.opcua.node_qualified_name, ns)
                   ELSE srv
         IN  IF n.opcua.node_qualified_name \notin DOMAIN s1.nodes
             THEN Raise("KeyError", s1)
             ELSE Ok(IF in_loop THEN s1
                     ELSE register_variable(s1, n.qualified_name, TRUE, n.value,
                              s1.nodes[n.opcua.node_qualified_name]))

\* add_Node creating the slave of every node anew, whether it exists or not
AddModbusRecreate(mb, n) ==
    IF ~(config.server = "ModBus" /\ n.modbus.present) THEN Ok(mb)
    ELSE LET m == n.modbus
             m1 == create_slave(mb, m.slave)
         IN  CASE m.type = "c" ->
                    create_coil(m1, m.slave, m.address, ToBool(n.value))
               [] m.type = "d" ->
                    IF n.value.t = "bool"
                    THEN create_discrete_input(m1, m.slave, m.address,
                                               ToBool(n.value))
                    ELSE Ok(m1)
               [] m.type = "h" ->
                    create_holding_register(m1, m.slave, m.address, n.value,
                                            m.register_size)
               [] OTHER ->
                    create_input_register(m1, m.slave, m.address, n.value,
                                          m.register_size)

\* add_Node, server == "ModBus": the slave is created when it is new, then
\* the coil or register
AddModbus(mb, n) ==
    IF ~(config.server = "ModBus" /\ n.modbus.present) THEN Ok(mb)
    ELSE LET m == n.modbus
             m1 == IF m.slave \notin DOMAIN mb.slaves
                   THEN create_slave(mb, m.slave) ELSE mb
         IN  CASE m.type = "c" ->
                    create_coil(m1, m.slave, m.address, ToBool(n.value))
               [] m.type = "d" ->
                    IF n.value.t = "bool"
                    THEN create_discrete_input(m1, m.slave, m.address,
                                               ToBool(n.value))
                    ELSE Ok(m1)
               [] m.type = "h" ->
                    create_holding_register(m1, m.slave, m.address, n.value,
                                            m.register_size)
               [] OTHER ->
                    create_input_register(m1, m.slave, m.address, n.value,
                                          m.register_size)

\* SDPLC.add_Node
add_Node(n) ==
    /\ LET o == AddOpcua(opcuaServer, n, started)
           \* client == "OPCUA": asyncio.run(connect()) raises in the loop
           c_ok == ~(config.client = "OPCUA" /\ started)
           n1 == IF o.ok /\ c_ok /\ config.client = "OPCUA" /\ n.opcua.present
                 THEN [n EXCEPT !.opcua.node_id =
                          UpstreamBrowse(n.opcua.node_qualified_name)]
                 ELSE n
           m == IF o.ok /\ c_ok THEN AddModbus(modbusServer, n)
                ELSE Ok(modbusServer)
           err == IF ~o.ok THEN o.err
                  ELSE IF ~c_ok THEN "RuntimeError" ELSE m.err
       IN  /\ nodes' = Append(nodes, n1)
           /\ opcuaServer' = o.val
           /\ modbusServer' = m.val
           /\ reconcilers' = IF err = "" THEN reconcilers \cup {Len(nodes) + 1}
                             ELSE reconcilers
           /\ last' = [NoLast EXCEPT !.op = "add", !.name = n.qualified_name,
                                     !.err = err]
    /\ UNCHANGED <<started, config, upstreamModbus, upstreamOpcua>>
    /\ UNCHANGED otherThanSdplc

\* add_Node as init calls it for the nodes of the configuration, before
\* the servers start
AddNode(n) ==
    /\ ~started
    /\ Len(nodes) < MaxNodes
    /\ add_Node(n)

\* the events of t = 0 with priority 0: start_opcua_server, start_modbus_server
Start ==
    /\ ~started
    /\ started' = TRUE
    /\ modbusServer' = IF config.server = "ModBus" THEN ModbusInit(modbusServer)
                       ELSE modbusServer
    /\ UNCHANGED <<opcuaServer, config, nodes, reconcilers, upstreamModbus,
                   upstreamOpcua, last>>
    /\ UNCHANGED otherThanSdplc

\* a variant of ModbusFanOut that writes a coil whatever the table of the
\* binding is
ModbusFanOutAnyTable(n, value) ==
    [calls |-> <<ClientCall("connect", 0, 0, <<>>),
                 ClientCall("write_coil", n.modbus.address, n.modbus.slave,
                            <<ToBool(value).v>>)>>,
     err |-> "AttributeError"]

\* the Modbus client calls of sync_node and write_node for node n holding
\* value: [calls, err].  connect, write_coil and write_holding_registers
\* are coroutine functions called without await; the client has no close.
ModbusFanOut(n, value) ==
    LET m == n.modbus
        connect == ClientCall("connect", 0, 0, <<>>)
        enc == encoder(value, m.register_size, config.byte_order,
                       config.word_order)
    IN  CASE m.type = "c" ->
               [calls |-> <<connect,
                            ClientCall("write_coil", m.address, m.slave,
                                       <<ToBool(value).v>>)>>,
                err |-> "AttributeError"]
          [] m.type = "h" /\ ~config.modbus_client_config ->
               [calls |-> <<connect>>, err |-> "RuntimeError"]
          [] m.type = "h" /\ ~enc.ok ->
               [calls |-> <<connect>>, err |-> enc.err]
          [] m.type = "h" ->
               [calls |-> <<connect,
                            ClientCall("write_holding_registers", m.address,
                                       m.slave, enc.regs)>>,
                err |-> "AttributeError"]
          [] OTHER -> [calls |-> <<connect>>, err |-> "AttributeError"]

\* sync_node, server == "OPCUA": the value read from the OPC UA server
SyncReadOpcua(n) ==
    IF n.qualified_name \notin DOMAIN opcuaServer.variables
    THEN Raise("KeyError", n.value)
    ELSE Ok(opcuaServer.variables[n.qualified_name].value)

\* sync_node, server == "ModBus": the value read from the Modbus server
SyncReadModbus(n) ==
    LET m == n.modbus
    IN  IF ~m.present THEN Raise("RuntimeError", n.value)
        ELSE CASE m.type = "c" -> read_coil(modbusServer, m.slave, m.address)
               [] m.type = "d" ->
                    read_discrete_input(modbusServer, m.slave, m.address)
               [] m.type = "h" ->
                    read_holding_register(modbusServer, m.slave, m.address)
               [] OTHER -> read_input_register(modbusServer, m.slave, m.address)

\* sync_node: whether the value read replaces node.value
\* a variant of Adopts that keeps the cached value whatever was read
AdoptsNever(seen, value) == FALSE

Adopts(seen, value) == ~PyEq(seen, value)

\* sync_node of node i
SyncNode(i) ==
    /\ started
    /\ i \in reconcilers
    /\ LET n == nodes[i]
           r == CASE config.server = "OPCUA" -> SyncReadOpcua(n)
                  [] config.server = "ModBus" -> SyncReadModbus(n)
                  [] OTHER -> [ok |-> FALSE, err |-> "", val |-> n.value]
           adopt == r.ok /\ Adopts(r.val, n.value)
           value == IF adopt THEN r.val ELSE n.value
           fan == IF adopt /\ config.server = "OPCUA"
                     /\ config.client = "ModBus" /\ n.modbus.present
                  THEN ModbusFanOut(n, value)
                  ELSE [calls |-> <<>>, err |-> ""]
       IN  /\ nodes' = [nodes EXCEPT ![i].value = value]
           /\ last' = [NoLast EXCEPT !.op = "sync", !.name = n.qualified_name,
                          !.read = r.ok, !.seen = r.val, !.before = n.value,
                          !.after = value, !.adopted = adopt,
                          !.calls = fan.calls,
                          !.ext = last.op = "ext" /\ last.name = n.qualified_name,
                          !.via = last.via, !.written = last.written,
                          !.err = IF r.ok THEN fan.err ELSE r.err]
    /\ UNCHANGED <<modbusServer, opcuaServer, started, config, reconcilers,
                   upstreamModbus, upstreamOpcua>>
    /\ UNCHANGED otherThanSdplc

\* the words the upstream Modbus device holds in table tbl
UpstreamWords(tbl, slave, address, n) ==
    [k \in 1..n |->
        IF <<slave, address + k - 1>> \in UpstreamKeys
        THEN upstreamModbus[tbl][<<slave, address + k - 1>>] ELSE 0]

\* the value the upstream device holds for the binding of node n that the
\* client role uses
UpstreamHolds(n) ==
    IF config.client = "OPCUA"
    THEN IF n.opcua.node_id \in UpstreamIds
         THEN upstreamOpcua[n.opcua.node_id] ELSE n.value
    ELSE LET m == n.modbus
         IN  IF m.type \in {"c", "d"}
             THEN PyBool(UpstreamWords(m.type, m.slave, m.address, 1)[1] # 0)
             ELSE decoder(UpstreamWords(m.type, m.slave, m.address,
                                        m.register_size \div 16),
                          IF IsInstanceInt(n.value) THEN "int" ELSE "float",
                          config.byte_order, config.word_order).value

\* read_node, client == "OPCUA": asyncio.run is called inside the running
\* event loop of the caller and raises
ReadOpcuaClient(n) ==
    IF ~n.opcua.present THEN "RuntimeError"
    ELSE IF n.opcua.node_id = 0 THEN "RuntimeError"
    ELSE "RuntimeError"

\* read_node, client == "ModBus": connect and read_* are coroutine functions
\* called without await, and the coroutine has no isError
ReadModbusClient(n) ==
    LET m == n.modbus
        fn == CASE m.type = "c" -> "read_coils"
                [] m.type = "d" -> "read_discrete_inputs"
                [] m.type = "h" -> "read_holding_registers"
                [] OTHER -> "read_input_registers"
        count == IF m.type \in {"c", "d"} THEN 1 ELSE m.register_size \div 16
    IN  IF ~m.present THEN [calls |-> <<>>, err |-> "RuntimeError"]
        ELSE [calls |-> <<ClientCall("connect", 0, 0, <<>>),
                          ClientCall(fn, m.address, m.slave, <<count>>)>>,
              err |-> "AttributeError"]

\* SDPLC.read_node, awaited by an event while the upstream device would
\* answer the read
ReadNode(name) ==
    /\ started
    /\ LET i == NodeIndex(name)
       IN  IF i = 0
           THEN /\ last' = [NoLast EXCEPT !.op = "read", !.name = name,
                                          !.err = "RuntimeError"]
           ELSE LET n == nodes[i]
                    o == IF config.client = "OPCUA" THEN ReadOpcuaClient(n)
                         ELSE ""
                    m == IF o = "" /\ config.client = "ModBus"
                         THEN ReadModbusClient(n)
                         ELSE [calls |-> <<>>, err |-> o]
                IN  /\ last' = [NoLast EXCEPT !.op = "read", !.name = name,
                                   !.before = n.value, !.after = n.value,
                                   !.err = m.err, !.calls = m.calls,
                                   !.upstream = IF config.client = "None"
                                                THEN n.value ELSE UpstreamHolds(n),
                                   !.upstream_ok = config.client # "None"]
    /\ UNCHANGED <<modbusServer, opcuaServer, started, config, nodes,
                   reconcilers, upstreamModbus, upstreamOpcua>>
    /\ UNCHANGED otherThanSdplc

\* write_node, the server step: [ok, err, mb, srv]
WriteServer(n, value) ==
    LET m == n.modbus
        w == CASE m.type = "c" ->
                    write_coil(modbusServer, m.slave, m.address, ToBool(value))
               [] m.type = "d" ->
                    write_discrete_input(modbusServer, m.slave, m.address,
                                         ToBool(value))
               [] m.type = "h" ->
                    write_holding_register(modbusServer, m.slave, m.address, value)
               [] OTHER ->
                    write_input_register(modbusServer, m.slave, m.address, value)
        same == [ok |-> TRUE, err |-> "", mb |-> modbusServer, srv |-> opcuaServer]
    IN  CASE config.server = "OPCUA" ->
               IF ~n.opcua.present THEN [same EXCEPT !.ok = FALSE, !.err = "RuntimeError"]
               ELSE IF n.qualified_name \notin DOMAIN opcuaServer.variables
               THEN [same EXCEPT !.ok = FALSE, !.err = "KeyError"]
               ELSE [same EXCEPT !.srv.variables[n.qualified_name].value = value]
          [] config.server = "ModBus" ->
               IF ~m.present THEN [same EXCEPT !.ok = FALSE, !.err = "RuntimeError"]
               ELSE [same EXCEPT !.ok = w.ok, !.err = w.err, !.mb = w.val]
          [] OTHER -> same

\* SDPLC.write_node: the value is stored in the node as given, then written
\* to the server and to the client
write_node(name, value) ==
    /\ started
    /\ LET i == NodeIndex(name)
       IN  IF i = 0
           THEN /\ last' = [NoLast EXCEPT !.op = "write", !.name = name,
                                          !.err = "ValueError"]
                /\ UNCHANGED <<nodes, modbusServer, opcuaServer, upstreamOpcua>>
           ELSE LET n == nodes[i]
                    s == WriteServer(n, value)
                    \* client == "OPCUA": await opcuaClient.write
                    o_err == IF s.ok /\ config.client = "OPCUA"
                                /\ (~n.opcua.present \/ n.opcua.node_id = 0)
                             THEN "RuntimeError" ELSE s.err
                    o_write == s.ok /\ config.client = "OPCUA" /\ o_err = ""
                    m == IF o_err = "" /\ config.client = "ModBus"
                         THEN IF n.modbus.present THEN ModbusFanOut(n, value)
                              ELSE [calls |-> <<>>, err |-> "RuntimeError"]
                         ELSE [calls |-> <<>>, err |-> o_err]
                IN  /\ nodes' = [nodes EXCEPT ![i].value = value]
                    /\ modbusServer' = s.mb
                    /\ opcuaServer' = s.srv
                    /\ upstreamOpcua' =
                          IF o_write
                          THEN [upstreamOpcua EXCEPT ![n.opcua.node_id] = value]
                          ELSE upstreamOpcua
                    /\ last' = [NoLast EXCEPT !.op = "write", !.name = name,
                                   !.before = n.value, !.after = value,
                                   !.err = m.err, !.calls = m.calls]
    /\ UNCHANGED <<started, config, reconcilers, upstreamModbus>>
    /\ UNCHANGED otherThanSdplc

\* write_node with a value of the type the node holds
WriteNode(name, value) ==
    /\ NodeIndex(name) # 0 => value \in ValsLike(nodes[NodeIndex(name)].value)
    /\ write_node(name, value)

\* the name of the first node bound to (slave, type, address), "" if none
Owner(slave, type, address) ==
    LET is == {i \in 1..Len(nodes) :
                 /\ nodes[i].modbus.present
                 /\ nodes[i].modbus.slave = slave
                 /\ nodes[i].modbus.type = type
                 /\ nodes[i].modbus.address = address}
    IN  IF is = {} THEN ""
        ELSE nodes[CHOOSE i \in is : \A j \in is : i <= j].qualified_name

\* an external OPC UA client writes a variable of the served address space
ExtOpcuaWrite(name, value) ==
    /\ started
    /\ config.server = "OPCUA"
    /\ name \in DOMAIN opcuaServer.variables
    /\ opcuaServer.variables[name].writable
    /\ value \in ValsLike(opcuaServer.variables[name].value)
    /\ opcuaServer' = [opcuaServer EXCEPT !.variables[name].value = value]
    /\ last' = [NoLast EXCEPT !.op = "ext", !.name = name, !.via = "opcua",
                              !.written = value]
    /\ UNCHANGED <<modbusServer, started, config, nodes, reconcilers,
                   upstreamModbus, upstreamOpcua>>
    /\ UNCHANGED otherThanSdplc

\* an external Modbus client writes an allocated coil of the served context
\* (function code 05)
ExtModbusWriteCoil(slave, address, bit) ==
    /\ started
    /\ config.server = "ModBus"
    /\ slave \in DOMAIN modbusServer.slaves_context
    /\ HasIndex(modbusServer.slaves_context[slave].c, address)
    /\ modbusServer.slaves[slave].coils_memory_occupancy[address + 1]
    /\ modbusServer' = [modbusServer EXCEPT
                           !.slaves_context[slave].c[address + 1] = bit]
    /\ last' = [NoLast EXCEPT !.op = "ext", !.name = Owner(slave, "c", address),
                              !.via = "modbus", !.written = PyBool(bit = 1)]
    /\ UNCHANGED <<opcuaServer, started, config, nodes, reconcilers,
                   upstreamModbus, upstreamOpcua>>
    /\ UNCHANGED otherThanSdplc

\* an external Modbus client writes one allocated holding register word of
\* the served context (function code 06)
ExtModbusWriteRegister(slave, address, word) ==
    /\ started
    /\ config.server = "ModBus"
    /\ slave \in DOMAIN modbusServer.slaves_context
    /\ HasIndex(modbusServer.slaves_context[slave].h, address)
    /\ modbusServer.slaves[slave].holding_registers_memory_occupancy[address + 1]
    /\ modbusServer' = [modbusServer EXCEPT
                           !.slaves_context[slave].h[address + 1] = word]
    /\ last' = [NoLast EXCEPT !.op = "ext", !.name = Owner(slave, "h", address),
                              !.via = "modbus", !.written = PyInt(word)]
    /\ UNCHANGED <<opcuaServer, started, config, nodes, reconcilers,
                   upstreamModbus, upstreamOpcua>>
    /\ UNCHANGED otherThanSdplc

\* the upstream device changes a value of its own
UpstreamChange ==
    /\ \/ /\ config.client = "ModBus"
          /\ \E w \in {0, 1} :
                upstreamModbus' = [upstreamModbus EXCEPT !["c"][<<0, 0>>] = w]
          /\ UNCHANGED upstreamOpcua
       \/ /\ config.client = "OPCUA"
          /\ \E id \in UpstreamIds, v \in {PyInt(9)} :
                upstreamOpcua' = [upstreamOpcua EXCEPT ![id] = v]
          /\ UNCHANGED upstreamModbus
    /\ UNCHANGED <<modbusServer, opcuaServer, started, config, nodes,
                   reconcilers, last>>
    /\ UNCHANGED otherThanSdplc

Names == {n.qualified_name : n \in NodePool}

\* the other harnesses at rest
CodecIdle ==
    /\ cin = [value |-> PyInt(0), size |-> 16, byte_order |-> "big",
              word_order |-> "big"]
    /\ cregs = [ok |-> FALSE, err |-> "", regs |-> <<>>]
    /\ cout = [ok |-> FALSE, err |-> "", value |-> PyInt(0)]
    /\ cpc = "idle"

PlcIdle == variables = <<>>

\* no call of browse_and_find_node is in progress
NoBrowse == [pc |-> "idle"]

\* SDPLCModBusClient.__init__
SDPLCModBusClient ==
    [_config |-> [none |-> TRUE, kind |-> "", type |-> ""],
     _client |-> [none |-> TRUE, connected |-> FALSE]]

\* the clients at rest
\* SDPLCOPCUAClient.__init__: no connection
SDPLCOPCUAClient == [connected |-> FALSE]

\* no call of write_holding_register / write_input_register is running
NoWriter == [pc |-> "idle", tbl |-> "h", bits |-> <<>>, i |-> 0]

ClientsIdle ==
    /\ browse = NoBrowse /\ modbusClient = SDPLCModBusClient
    /\ opcuaClient = SDPLCOPCUAClient /\ writer = NoWriter

Init == SdplcInit /\ CodecIdle /\ PlcIdle /\ ClientsIdle

Next ==
    \/ \E n \in Addable : AddNode(n)
    \/ Start
    \/ \E i \in 1..Len(nodes) : SyncNode(i)
    \/ \E name \in Names : ReadNode(name)
    \/ \E name \in Names, value \in BoolVals \cup IntVals : WriteNode(name, value)
    \/ \E name \in Names, value \in BoolVals \cup IntVals : ExtOpcuaWrite(name, value)
    \/ \E slave \in 0..1, address \in 0..(MemSize - 1), bit \in {0, 1} :
          ExtModbusWriteCoil(slave, address, bit)
    \/ \E slave \in 0..1, address \in 0..(MemSize - 1), word \in WordVals :
          ExtModbusWriteRegister(slave, address, word)
    \/ UpstreamChange

Spec == Init /\ [][Next]_vars

(***************************************************************************)
(* plc.py: SDPLC serving every variable over OPC UA and over Modbus.       *)
(***************************************************************************)
\* SimVariable as add_variable reads it
SimVariable(qualified_name, value, type, modbus_slave, address, register_size) ==
    [qualified_name |-> qualified_name, value |-> value, type |-> type,
     modbus_slave |-> modbus_slave, address |-> address,
     register_size |-> register_size]

\* the variables of the configuration file, in its order
ConfiguredVariables ==
    <<SimVariable("Blender", PyBool(FALSE), "c", 0, 0, 16),
      SimVariable("Sensor", PyBool(TRUE), "d", 0, 0, 16),
      SimVariable("Level", PyInt(7), "h", 0, 0, 16),
      SimVariable("Pump", PyInt(7), "h", 0, 1, 16),
      SimVariable("Wide", PyInt(-2), "h", 0, 2, 32),
      SimVariable("Flow", PyInt(7), "i", 1, 0, 16)>>

VariableNames ==
    {ConfiguredVariables[k].qualified_name : k \in DOMAIN ConfiguredVariables}

\* the variables init may add next: each once, in the order of the file
AddableVariables ==
    {ConfiguredVariables[k] : k \in {k \in DOMAIN ConfiguredVariables :
        \A i \in 1..Len(variables), j \in k..Len(ConfiguredVariables) :
            variables[i].qualified_name # ConfiguredVariables[j].qualified_name}}

VariableIndex(name) ==
    IF \E i \in 1..Len(variables) : variables[i].qualified_name = name
    THEN CHOOSE i \in 1..Len(variables) :
            /\ variables[i].qualified_name = name
            /\ \A j \in 1..(i - 1) : variables[j].qualified_name # name
    ELSE 0

\* the namespace of a Modbus slave
SlaveNamespace(slave) == "http://sdics.com/ModBus/slave/" \o ToString(slave)

\* the engine of sdplc.py at rest
SdplcIdle ==
    /\ config = [server |-> "None", client |-> "None",
                 modbus_client_config |-> FALSE,
                 byte_order |-> "big", word_order |-> "big"]
    /\ nodes = <<>>
    /\ reconcilers = {}
    /\ upstreamModbus = [tbl \in {"c", "d", "h", "i"} |-> [k \in UpstreamKeys |-> 0]]
    /\ upstreamOpcua = [id \in UpstreamIds |-> PyInt(0)]

\* SDPLC.__init__ and SDPLC.init up to the variables of the configuration
PlcInit ==
    /\ \E order \in Endian :
          modbusServer = ModbusConfig(SimPLCModBus, order, order)
    /\ opcuaServer = SDPLCOPCUAServer
    /\ started = FALSE
    /\ variables = <<>>
    /\ last = NoLast
    /\ SdplcIdle /\ CodecIdle /\ ClientsIdle

\* add_variable: the Modbus entry of the variable, or the error raised
AddVariableModbus(mb, v) ==
    CASE v.type = "c" ->
           create_coil(mb, v.modbus_slave, v.address, v.value)
      [] v.type = "d" ->
           create_discrete_input(mb, v.modbus_slave, v.address, v.value)
      [] v.type = "h" ->
           create_holding_register(mb, v.modbus_slave, v.address, v.value,
                                   v.register_size)
      [] OTHER ->
           create_input_register(mb, v.modbus_slave, v.address, v.value,
                                 v.register_size)

\* SDPLC.add_variable, called by init for a variable of the configuration
add_variable(v) ==
    /\ ~started
    /\ Len(variables) < MaxNodes
    /\ LET namespace == SlaveNamespace(v.modbus_slave)
           o == IF namespace \in opcuaServer.namespaces THEN opcuaServer
                ELSE register_node(register_namespace(opcuaServer, namespace),
                                   ToString(v.modbus_slave), namespace)
           mb == IF v.modbus_slave \in DOMAIN modbusServer.slaves
                 THEN modbusServer
                 ELSE create_slave(modbusServer, v.modbus_slave)
           typed == IF v.type \in {"c", "d"} THEN v.value.t = "bool"
                    ELSE v.value.t \in {"bool", "int", "float"}
           m == IF typed THEN AddVariableModbus(mb, v)
                ELSE Raise("ValueError", mb)
       IN  /\ modbusServer' = m.val
           /\ opcuaServer' =
                 IF m.ok
                 THEN register_variable(o, v.qualified_name,
                                        v.type \in {"c", "h"}, v.value,
                                        o.nodes[ToString(v.modbus_slave)])
                 ELSE o
           /\ variables' = IF m.ok THEN Append(variables, v) ELSE variables
           /\ last' = [NoLast EXCEPT !.op = "add", !.name = v.qualified_name,
                                     !.err = m.err]
    /\ UNCHANGED started
    /\ UNCHANGED otherThanPlc

\* the end of SDPLC.init: self.modbus.init(), then the servers start
PlcStart ==
    /\ ~started
    /\ started' = TRUE
    /\ modbusServer' = ModbusInit(modbusServer)
    /\ UNCHANGED <<opcuaServer, variables, last>>
    /\ UNCHANGED otherThanPlc

\* the body shared by sync_coil, sync_discrete_input, sync_holding_register
\* and sync_input_register of variable i: read the OPC UA variable, write
\* the value to Modbus
SyncVariable(i, type) ==
    /\ started
    /\ i \in 1..Len(variables)
    /\ variables[i].type = type
    /\ LET v == variables[i]
           value == opcuaServer.variables[v.qualified_name].value
           w == CASE type = "c" ->
                       write_coil(modbusServer, v.modbus_slave, v.address, value)
                  [] type = "d" ->
                       write_discrete_input(modbusServer, v.modbus_slave,
                                            v.address, value)
                  [] type = "h" ->
                       write_holding_register(modbusServer, v.modbus_slave,
                                              v.address, value)
                  [] OTHER ->
                       write_input_register(modbusServer, v.modbus_slave,
                                            v.address, value)
       IN  /\ modbusServer' = w.val
           /\ last' = [NoLast EXCEPT !.op = "sync", !.name = v.qualified_name,
                          !.read = TRUE, !.seen = value, !.err = w.err,
                          !.ext = last.op = "ext" /\ last.name = v.qualified_name,
                          !.via = last.via, !.written = last.written,
                          !.dirty = last.dirty]
    /\ UNCHANGED <<opcuaServer, started, variables>>
    /\ UNCHANGED otherThanPlc

sync_coil(i) == SyncVariable(i, "c")

sync_discrete_input(i) == SyncVariable(i, "d")

sync_holding_register(i) == SyncVariable(i, "h")

sync_input_register(i) == SyncVariable(i, "i")

\* bool(value), int(value) of write_variable
Coerce(value, like) ==
    IF like.t = "bool" THEN ToBool(value)
    ELSE IF like.t = "int" THEN PyInt(value.v)
    ELSE [t |-> "float", v |-> value.v]

\* SDPLC.write_variable
write_variable(name, value) ==
    /\ started
    /\ LET i == VariableIndex(name)
       IN  IF i = 0
           THEN /\ last' = [NoLast EXCEPT !.op = "write", !.name = name,
                               !.err = "RuntimeError", !.dirty = last.dirty]
                /\ UNCHANGED opcuaServer
           ELSE /\ opcuaServer' =
                      [opcuaServer EXCEPT !.variables[name].value =
                          Coerce(value, variables[i].value)]
                /\ last' = [NoLast EXCEPT !.op = "write", !.name = name,
                               !.after = Coerce(value, variables[i].value),
                               !.dirty = TRUE]
    /\ UNCHANGED <<modbusServer, started, variables>>
    /\ UNCHANGED otherThanPlc

\* SDPLC.read_variable
read_variable(name) ==
    /\ started
    /\ LET i == VariableIndex(name)
       IN  last' = IF i = 0
                   THEN [NoLast EXCEPT !.op = "read", !.name = name,
                            !.err = "RuntimeError", !.dirty = last.dirty]
                   ELSE [NoLast EXCEPT !.op = "read", !.name = name,
                            !.read = TRUE,
                            !.seen = opcuaServer.variables[name].value,
                            !.dirty = last.dirty]
    /\ UNCHANGED <<modbusServer, opcuaServer, started, variables>>
    /\ UNCHANGED otherThanPlc

\* an external OPC UA client writes a writable variable
PlcExtOpcuaWrite(name, value) ==
    /\ started
    /\ name \in DOMAIN opcuaServer.variables
    /\ opcuaServer.variables[name].writable
    /\ value \in ValsLike(opcuaServer.variables[name].value)
    /\ opcuaServer' = [opcuaServer EXCEPT !.variables[name].value = value]
    /\ last' = [NoLast EXCEPT !.op = "ext", !.name = name, !.via = "opcua",
                              !.written = value, !.dirty = TRUE]
    /\ UNCHANGED <<modbusServer, started, variables>>
    /\ UNCHANGED otherThanPlc

\* the name of the first variable bound to (slave, type, address), "" if none
VariableAt(slave, type, address) ==
    LET is == {i \in 1..Len(variables) :
                 /\ variables[i].modbus_slave = slave
                 /\ variables[i].type = type
                 /\ variables[i].address = address}
    IN  IF is = {} THEN ""
        ELSE variables[CHOOSE i \in is : \A j \in is : i <= j].qualified_name

\* an external Modbus client writes the coil of a variable (function code 05)
PlcExtModbusWriteCoil(slave, address, bit) ==
    /\ started
    /\ VariableAt(slave, "c", address) # ""
    /\ modbusServer' = [modbusServer EXCEPT
                           !.slaves_context[slave].c[address + 1] = bit]
    /\ last' = [NoLast EXCEPT !.op = "ext",
                              !.name = VariableAt(slave, "c", address),
                              !.via = "modbus", !.written = PyBool(bit = 1),
                              !.dirty = TRUE]
    /\ UNCHANGED <<opcuaServer, started, variables>>
    /\ UNCHANGED otherThanPlc

\* an external Modbus client writes the integer word, encoded in the byte
\* and word order of the server, to the holding register of a variable
\* (function code 16)
PlcExtModbusWriteRegister(name, word) ==
    /\ started
    /\ VariableIndex(name) # 0
    /\ variables[VariableIndex(name)].type = "h"
    /\ LET v == variables[VariableIndex(name)]
           bits == encoder(PyInt(word), v.register_size,
                           modbusServer.byte_order, modbusServer.word_order)
       IN  /\ bits.ok
           /\ modbusServer' = [modbusServer EXCEPT
                                  !.slaves_context[v.modbus_slave].h =
                                      SetWords(@, v.address, bits.regs, 1)]
    /\ last' = [NoLast EXCEPT !.op = "ext", !.name = name, !.via = "modbus",
                              !.written = PyInt(word), !.dirty = TRUE]
    /\ UNCHANGED <<opcuaServer, started, variables>>
    /\ UNCHANGED otherThanPlc

PlcNext ==
    \/ \E v \in AddableVariables : add_variable(v)
    \/ PlcStart
    \/ \E i \in 1..Len(variables) : sync_coil(i)
    \/ \E i \in 1..Len(variables) : sync_discrete_input(i)
    \/ \E i \in 1..Len(variables) : sync_holding_register(i)
    \/ \E i \in 1..Len(variables) : sync_input_register(i)
    \/ \E name \in VariableNames, value \in {PyBool(TRUE), PyInt(7)} :
          write_variable(name, value)
    \/ \E name \in VariableNames : read_variable(name)
    \/ \E name \in VariableNames, value \in BoolVals \cup IntVals :
          PlcExtOpcuaWrite(name, value)
    \/ \E slave \in 0..1, address \in 0..(MemSize - 1), bit \in {0, 1} :
          PlcExtModbusWriteCoil(slave, address, bit)
    \/ \E name \in VariableNames, word \in WordVals :
          PlcExtModbusWriteRegister(name, word)

SpecPLC == PlcInit /\ [][PlcNext]_vars

(***************************************************************************)
(* Properties of sdplc.py (Spec).                                          *)
(***************************************************************************)
\* the node the last handler execution was about
LastNode == nodes[NodeIndex(last.name)]

LastSync(server, client) ==
    /\ last.op = "sync"
    /\ config.server = server
    /\ config.client = client
    /\ NodeIndex(last.name) # 0

\* C3: when a reconciler execution read from the serving protocol a value
\* that differs from n.value, n.value equals the value read when the
\* execution ends; when the value read equals n.value, n.value is unchanged.
SyncAdoptsRead ==
    (last.op = "sync" /\ last.read) =>
        /\ LastNode.value = last.after
        /\ IF PyEq(last.seen, last.before)
           THEN last.after = last.before
           ELSE last.after = last.seen

SyncAdoptsReadWitness ==
    /\ LastSync("ModBus", "None")
    /\ last.name = "Blender" /\ last.read /\ last.ext
    /\ last.before = PyBool(FALSE) /\ last.seen = PyBool(TRUE)
    /\ LastNode.value = PyBool(TRUE)

\* C5: after an external OPC UA client wrote a Bool v to a node with a Coil
\* binding, when the node's next reconciler execution ends the cached value
\* is v and the Modbus coil at the node's slave and address reads v.
OpcuaWriteReachesCoil ==
    (/\ LastSync("OPCUA", "ModBus")
     /\ last.ext
     /\ LastNode.modbus.present /\ LastNode.modbus.type = "c") =>
        /\ LastNode.value = last.written
        /\ PyEq(PyInt(UpstreamWords("c", LastNode.modbus.slave,
                                    LastNode.modbus.address, 1)[1]),
                last.written)

\* C6: with server OPCUA and client ModBus, when a reconciler execution that
\* adopted v for a node bound to a coil or a holding register ends, the
\* upstream device holds bool(v), or the words of v in the client's byte and
\* word order, at the node's address and slave, written between a completed
\* connect and a close.
UpstreamModbusReceives ==
    (/\ LastSync("OPCUA", "ModBus")
     /\ last.adopted
     /\ LastNode.modbus.present /\ LastNode.modbus.type \in {"c", "h"}) =>
        LET m == LastNode.modbus
            enc == encoder(last.after, m.register_size, config.byte_order,
                           config.word_order)
        IN  /\ last.err = ""
            /\ m.type = "c" =>
                  UpstreamWords("c", m.slave, m.address, 1)
                     = <<ToBool(last.after).v>>
            /\ m.type = "h" =>
                  /\ enc.ok
                  /\ UpstreamWords("h", m.slave, m.address, Len(enc.regs))
                        = enc.regs

\* C7: with server ModBus and client OPCUA, when a reconciler execution that
\* adopted a Modbus value v for a node with an allocated upstream node id
\* ends, the upstream OPC UA server holds v under that node id.
UpstreamOpcuaReceives ==
    (/\ LastSync("ModBus", "OPCUA")
     /\ last.adopted
     /\ LastNode.opcua.present /\ LastNode.opcua.node_id \in UpstreamIds) =>
        upstreamOpcua[LastNode.opcua.node_id] = last.after

\* C8: no reconciler execution and no write_node call makes an upstream
\* Modbus write call for a node bound to a discrete input or an input
\* register.
InputsNeverFannedOut ==
    (/\ NodeIndex(last.name) # 0
     /\ LastNode.modbus.present /\ LastNode.modbus.type \in {"d", "i"}) =>
        \A k \in 1..Len(last.calls) :
            last.calls[k].fn \notin {"write_coil", "write_holding_registers"}

InputsNeverFannedOutWitness ==
    /\ LastSync("OPCUA", "ModBus")
    /\ last.name = "Sensor" /\ last.adopted
    /\ LastNode.modbus.type = "d"
    /\ LastNode.value = PyBool(FALSE)
    /\ Len(last.calls) = 1 /\ last.calls[1].fn = "connect"

\* C9: when read_node ends with a client role configured, n.value equals
\* the value the upstream device holds for the node's binding and the call
\* has not raised, if the upstream read succeeded; n.value is as before and
\* the call has raised, if the upstream read reported an error.
ReadNodeQueriesUpstream ==
    (/\ last.op = "read"
     /\ config.client # "None"
     /\ NodeIndex(last.name) # 0
     /\ config.client = "OPCUA" =>
           LastNode.opcua.present /\ LastNode.opcua.node_id \in UpstreamIds
     /\ config.client = "ModBus" => LastNode.modbus.present) =>
        IF last.upstream_ok
        THEN last.err = "" /\ PyEq(LastNode.value, last.upstream)
        ELSE last.err # "" /\ LastNode.value = last.before


(***************************************************************************)
(* Properties of plc.py (SpecPLC).                                         *)
(***************************************************************************)
\* the variable the last handler execution was about
LastVariable == variables[VariableIndex(last.name)]

\* the value an OPC UA read of the last variable returns
OpcuaView == opcuaServer.variables[last.name].value

\* the value a Modbus client decodes at the slave and address of variable
\* v, in the width of v and the byte and word order of the server
ModbusView(v) ==
    LET ctx == modbusServer.slaves_context[v.modbus_slave]
    IN  IF v.type \in {"c", "d"}
        THEN PyBool(ctx[v.type][v.address + 1] # 0)
        ELSE decoder(Slice(ctx[v.type], v.address,
                           v.address + v.register_size \div 16),
                     "int", modbusServer.byte_order,
                     modbusServer.word_order).value

\* C1: when the reconciler of a variable has run and no client has changed
\* anything, the value read from the OPC UA server equals the value decoded
\* from the Modbus server at the variable's slave and address.
DualViewCoherent ==
    (last.op = "sync" /\ ~last.dirty /\ VariableIndex(last.name) # 0) =>
        PyEq(OpcuaView, ModbusView(LastVariable))

\* C2: a reconciler execution with no external write and no write_variable
\* before it leaves the cached values, the OPC UA server and the Modbus
\* server as they were.
SyncIdempotent ==
    [][(last'.op = "sync" /\ ~last'.dirty) =>
          /\ variables' = variables
          /\ opcuaServer' = opcuaServer
          /\ modbusServer' = modbusServer]_vars

\* C4: after an external Modbus client wrote the integer v to the holding
\* register of a variable, when the variable's next reconciler execution
\* ends an OPC UA read returns v and the register still holds v.
ModbusWriteReachesOpcua ==
    (/\ last.op = "sync" /\ last.ext /\ last.via = "modbus"
     /\ VariableIndex(last.name) # 0
     /\ LastVariable.type = "h") =>
        /\ PyEq(OpcuaView, last.written)
        /\ PyEq(ModbusView(LastVariable), last.written)

(***************************************************************************)
(* Codec harness: an input is drawn, encoded, and the registers decoded    *)
(* with the same byte and word order.                                      *)
(***************************************************************************)

Sizes == {16, 32, 64}

\* the integers |v| <= MaxDense are all inputs of the codec harness
MaxDense == 3

\* boundary and mixed-byte integers; 16909060 = 0x01020304
SampleInts ==
    {-2147483647 - 1, -2147483647, -16909060, -65537, -65536, -32769, -32768,
     -32767, -258, -257, -256, -255, -129, -128, -127,
     127, 128, 129, 255, 256, 257, 258, 4660, 32767, 32768, 65535, 65536, 65537,
     16909060, 19088743, 2147483646, 2147483647}

CodecInts(size) == {v \in SampleInts \cup (-MaxDense..MaxDense) : InRange(v, size)}

\* the servers at rest
ServersIdle ==
    /\ modbusServer = SimPLCModBus
    /\ opcuaServer = SDPLCOPCUAServer
    /\ started = FALSE
    /\ last = NoLast

CodecInit ==
    /\ ServersIdle /\ SdplcIdle /\ PlcIdle /\ ClientsIdle
    /\ cpc = "in"
    /\ \E size \in Sizes, bo \in Endian, wo \in Endian :
         \E v \in CodecInts(size) :
            cin = [value |-> PyInt(v), size |-> size,
                   byte_order |-> bo, word_order |-> wo]
    /\ cregs = [ok |-> FALSE, err |-> "", regs |-> <<>>]
    /\ cout = [ok |-> FALSE, err |-> "", value |-> PyInt(0)]

CodecEncode ==
    /\ cpc = "in"
    /\ cregs' = encoder(cin.value, cin.size, cin.byte_order, cin.word_order)
    /\ cpc' = "enc"
    /\ UNCHANGED <<cin, cout, serverVars, sdplcVars, variables, browse, modbusClient,
                   opcuaClient, writer>>

CodecDecode ==
    /\ cpc = "enc"
    /\ cregs.ok
    /\ cout' = decoder(cregs.regs, "int", cin.byte_order, cin.word_order)
    /\ cpc' = "dec"
    /\ UNCHANGED <<cin, cregs, serverVars, sdplcVars, variables, browse, modbusClient,
                   opcuaClient, writer>>

CodecNext == CodecEncode \/ CodecDecode

SpecCodec == CodecInit /\ [][CodecNext]_vars

MaxRegs == 2

\* the addresses tried: the table, and the two addresses after its end
Addresses == 0..(MemSize + 1)

RegSizes == {16, 32}

\* 40000 does not fit a 16-bit register
RegVals == {PyInt(7), PyInt(40000)}

\* the slave the harness works on
TheSlave == 0

\* what the last call was, what it returned, and the server before it
MbLast(op, address, size, value, r, before) ==
    [op |-> op, address |-> address, size |-> size, value |-> value,
     ok |-> r.ok, err |-> r.err, ret |-> r.val, before |-> before]

MbNoLast ==
    [op |-> "none", address |-> 0, size |-> 16, value |-> PyInt(0),
     ok |-> FALSE, err |-> "", ret |-> PyInt(0), before |-> SimPLCModBus]

\* the points declared on slave s so far
Declared(s) ==
    Len(s.coils) + Len(s.discrete_inputs)
        + Len(s.holding_registers) + Len(s.input_registers)

MbIdle == /\ opcuaServer = SDPLCOPCUAServer
          /\ started = FALSE

MbHarnessInit ==
    /\ modbusServer = SimPLCModBus
    /\ last = MbNoLast
    /\ MbIdle /\ SdplcIdle /\ PlcIdle /\ CodecIdle /\ ClientsIdle

otherThanModbus ==
    <<codecVars, opcuaServer, started, config, nodes, reconcilers,
      upstreamModbus, upstreamOpcua, variables, browse, modbusClient,
      opcuaClient, writer>>

\* modbus.create_slave(0)
MbCreateSlave ==
    /\ TheSlave \notin DOMAIN modbusServer.slaves
    /\ modbusServer' = create_slave(modbusServer, TheSlave)
    /\ last' = MbLast("create_slave", 0, 16, PyInt(0), Ok(PyInt(0)), modbusServer)
    /\ UNCHANGED otherThanModbus

\* the harness adds points before modbus.init(), while fewer than MaxRegs
\* are declared
MayAdd ==
    /\ TheSlave \in DOMAIN modbusServer.slaves
    /\ TheSlave \notin DOMAIN modbusServer.slaves_context
    /\ Declared(modbusServer.slaves[TheSlave]) < MaxRegs

\* the harness reads and writes at the addresses of the declared registers
DeclaredAt(metas, address) ==
    \E k \in 1..Len(metas) : metas[k].address = address

\* modbus.create_coil(0, address, True)
MbAddCoil(address) ==
    /\ MayAdd
    /\ LET r == create_coil(modbusServer, TheSlave, address, PyBool(TRUE))
       IN  /\ modbusServer' = r.val
           /\ last' = MbLast("add_coil", address, 1, PyBool(TRUE),
                             [r EXCEPT !.val = PyInt(0)], modbusServer)
    /\ UNCHANGED otherThanModbus

\* modbus.create_discrete_input(0, address, True)
MbAddDiscreteInput(address) ==
    /\ MayAdd
    /\ LET r == create_discrete_input(modbusServer, TheSlave, address,
                                      PyBool(TRUE))
       IN  /\ modbusServer' = r.val
           /\ last' = MbLast("add_discrete_input", address, 1, PyBool(TRUE),
                             [r EXCEPT !.val = PyInt(0)], modbusServer)
    /\ UNCHANGED otherThanModbus

\* modbus.create_holding_register(0, address, value, size)
MbAddHoldingRegister(address, value, size) ==
    /\ MayAdd
    /\ LET r == create_holding_register(modbusServer, TheSlave, address, value,
                                        size)
       IN  /\ modbusServer' = r.val
           /\ last' = MbLast("add_holding_register", address, size, value,
                             [r EXCEPT !.val = PyInt(0)], modbusServer)
    /\ UNCHANGED otherThanModbus

\* modbus.create_input_register(0, address, value, size)
MbAddInputRegister(address, value, size) ==
    /\ MayAdd
    /\ LET r == create_input_register(modbusServer, TheSlave, address, value,
                                      size)
       IN  /\ modbusServer' = r.val
           /\ last' = MbLast("add_input_register", address, size, value,
                             [r EXCEPT !.val = PyInt(0)], modbusServer)
    /\ UNCHANGED otherThanModbus

\* modbus.init()
MbInit ==
    /\ TheSlave \in DOMAIN modbusServer.slaves
    /\ TheSlave \notin DOMAIN modbusServer.slaves_context
    /\ modbusServer' = ModbusInit(modbusServer)
    /\ last' = MbLast("init", 0, 16, PyInt(0), Ok(PyInt(0)), modbusServer)
    /\ UNCHANGED otherThanModbus

\* modbus.read_holding_register(0, address)
MbReadHoldingRegister(address) ==
    /\ TheSlave \in DOMAIN modbusServer.slaves_context
    /\ DeclaredAt(modbusServer.slaves[TheSlave].holding_registers, address)
    /\ last' = MbLast("read_holding_register", address, 0, PyInt(0),
                      read_holding_register(modbusServer, TheSlave, address),
                      modbusServer)
    /\ UNCHANGED <<modbusServer, otherThanModbus>>

\* modbus.read_input_register(0, address)
MbReadInputRegister(address) ==
    /\ TheSlave \in DOMAIN modbusServer.slaves_context
    /\ DeclaredAt(modbusServer.slaves[TheSlave].input_registers, address)
    /\ last' = MbLast("read_input_register", address, 0, PyInt(0),
                      read_input_register(modbusServer, TheSlave, address),
                      modbusServer)
    /\ UNCHANGED <<modbusServer, otherThanModbus>>

\* what a register write returns: the words are stored, then read back and
\* decoded
Returned(w, back) ==
    IF ~w.ok THEN Raise(w.err, PyInt(0)) ELSE back

\* modbus.write_holding_register(0, address, value)
MbWriteHoldingRegister(address, value) ==
    /\ TheSlave \in DOMAIN modbusServer.slaves_context
    /\ DeclaredAt(modbusServer.slaves[TheSlave].holding_registers, address)
    /\ LET w == write_holding_register(modbusServer, TheSlave, address, value)
       IN  /\ modbusServer' = w.val
           /\ last' = MbLast("write_holding_register", address, 0, value,
                             Returned(w, read_holding_register(w.val, TheSlave,
                                                               address)),
                             modbusServer)
    /\ UNCHANGED otherThanModbus

\* modbus.write_input_register(0, address, value)
MbWriteInputRegister(address, value) ==
    /\ TheSlave \in DOMAIN modbusServer.slaves_context
    /\ DeclaredAt(modbusServer.slaves[TheSlave].input_registers, address)
    /\ LET w == write_input_register(modbusServer, TheSlave, address, value)
       IN  /\ modbusServer' = w.val
           /\ last' = MbLast("write_input_register", address, 0, value,
                             Returned(w, read_input_register(w.val, TheSlave,
                                                             address)),
                             modbusServer)
    /\ UNCHANGED otherThanModbus

\* the value written by the harness
WriteVals == {PyInt(9)}

MbNext ==
    \/ MbCreateSlave
    \/ \E address \in Addresses : MbAddCoil(address)
    \/ \E address \in Addresses : MbAddDiscreteInput(address)
    \/ \E address \in Addresses, value \in RegVals, size \in RegSizes :
          MbAddHoldingRegister(address, value, size)
    \/ \E address \in Addresses, value \in RegVals, size \in RegSizes :
          MbAddInputRegister(address, value, size)
    \/ MbInit
    \/ \E address \in Addresses : MbReadHoldingRegister(address)
    \/ \E address \in Addresses : MbReadInputRegister(address)
    \/ \E address \in Addresses, value \in WriteVals :
          MbWriteHoldingRegister(address, value)
    \/ \E address \in Addresses, value \in WriteVals :
          MbWriteInputRegister(address, value)

SpecModbus == MbHarnessInit /\ [][MbNext]_vars

(***************************************************************************)
(* Claims on the Modbus server harness.                                    *)
(***************************************************************************)

\* the slave now, and before the last call
MbSlave == modbusServer.slaves[TheSlave]

MbBefore == last.before.slaves[TheSlave]

\* the window of the register the last call named
Window == last.address..(last.address + last.size \div 16 - 1)

\* after a successful add into the table with memory mem and occupancy occ
\* (old before the add): the bits of the window are newly set, every other
\* bit is as before, and the window holds the encoding of the value
WindowTaken(mem, occ, old) ==
    /\ \A k \in Window :
          /\ HasIndex(occ, k) /\ occ[k + 1]
          /\ ~(HasIndex(old, k) /\ old[k + 1])
    /\ \A k \in 0..(Len(occ) - 1) :
          k \notin Window => HasIndex(old, k) /\ occ[k + 1] = old[k + 1]
    /\ Slice(mem, last.address, last.address + last.size \div 16)
          = encoder(last.value, last.size, modbusServer.byte_order,
                    modbusServer.word_order).regs

\* C11: after a successful add_holding_register(addr, width) the occupancy
\* bitmap has exactly the width/16 bits at [addr, addr + width/16) newly
\* set, every other bit as before, and the words at those addresses hold
\* the encoding of the initial value; likewise for add_input_register.
AddTakesWindow ==
    /\ (last.op = "add_holding_register" /\ last.ok) =>
          WindowTaken(MbSlave.holding_registers_memory,
                      MbSlave.holding_registers_memory_occupancy,
                      MbBefore.holding_registers_memory_occupancy)
    /\ (last.op = "add_input_register" /\ last.ok) =>
          WindowTaken(MbSlave.input_registers_memory,
                      MbSlave.input_registers_memory_occupancy,
                      MbBefore.input_registers_memory_occupancy)

\* the window of the register with metadata m
WindowOf(m) == m.address..(m.address + m.size \div 16 - 1)

\* the registers of the list metas whose add succeeded: a register is listed
\* once its window was found free, and the add then fails only in the encoder
Added(metas) ==
    {k \in 1..Len(metas) :
        encoder(metas[k].value, metas[k].size, modbusServer.byte_order,
                modbusServer.word_order).ok}

\* the windows of the registers added to one table are pairwise disjoint
Disjoint(metas) ==
    \A j, k \in Added(metas) :
        j # k => WindowOf(metas[j]) \cap WindowOf(metas[k]) = {}

\* the last add names a window that meets the window of a register added
\* before
Overlaps(metas) ==
    \E k \in Added(metas) : WindowOf(metas[k]) \cap Window # {}

\* the last add names the address of a coil or discrete input added before
Taken(points) == \E k \in 1..Len(points) : points[k].address = last.address

\* the last call raised the error of an occupied slot
AlreadyOccupied == ~last.ok /\ last.err = "ValueError"

\* C12: the windows of the registers added successfully to one table are
\* pairwise disjoint, and an add whose window overlaps an occupied slot,
\* for registers as for coils and discrete inputs, fails as already
\* occupied.
WindowsDisjoint ==
    /\ TheSlave \in DOMAIN modbusServer.slaves =>
          /\ Disjoint(MbSlave.holding_registers)
          /\ Disjoint(MbSlave.input_registers)
    /\ (last.op = "add_holding_register" /\ Overlaps(MbBefore.holding_registers))
          => AlreadyOccupied
    /\ (last.op = "add_input_register" /\ Overlaps(MbBefore.input_registers))
          => AlreadyOccupied
    /\ (last.op = "add_coil" /\ Taken(MbBefore.coils)) => AlreadyOccupied
    /\ (last.op = "add_discrete_input" /\ Taken(MbBefore.discrete_inputs))
          => AlreadyOccupied

\* nothing was written since modbus.init(): the data blocks hold what the
\* slave's memory lists held
Untouched ==
    /\ TheSlave \in DOMAIN modbusServer.slaves_context
    /\ modbusServer.slaves_context[TheSlave] = initialize(MbSlave)

\* the last read returned the initial value of every register of metas that
\* was added at the address read
ReadsInitial(metas) ==
    \A k \in Added(metas) :
        metas[k].address = last.address =>
            last.ok /\ last.ret = metas[k].value

\* C13: once registers were added at any addresses, with any widths and in
\* any order, and the server initialised, read_holding_register(slave, addr)
\* returns the initial value of the register declared at addr; likewise
\* read_input_register.
ReadReturnsInitial ==
    /\ (last.op = "read_holding_register" /\ Untouched)
          => ReadsInitial(MbSlave.holding_registers)
    /\ (last.op = "read_input_register" /\ Untouched)
          => ReadsInitial(MbSlave.input_registers)

\* the data blocks of the slave now, and before the last call
MbContext == modbusServer.slaves_context[TheSlave]

MbContextBefore == last.before.slaves_context[TheSlave]

\* the last write, into table tbl with the registers metas, returned the
\* value written, a read at the same address returns it, and the words
\* outside the register's window and the other tables are as before
WriteKept(tbl, metas, read) ==
    \A k \in Added(metas) :
        metas[k].address = last.address =>
            /\ last.ok /\ last.ret = last.value
            /\ read.ok /\ read.val = last.value
            /\ Len(MbContext[tbl]) = Len(MbContextBefore[tbl])
            /\ \A j \in 0..(Len(MbContext[tbl]) - 1) :
                  j \notin WindowOf(metas[k]) =>
                      MbContext[tbl][j + 1] = MbContextBefore[tbl][j + 1]
            /\ \A other \in {"c", "d", "h", "i"} \ {tbl} :
                  MbContext[other] = MbContextBefore[other]

\* C14: write_holding_register(slave, addr, v) with an integer v in the
\* range of the register's width returns v, a following read_holding_register
\* returns v, and every word outside the register's window and every other
\* table is unchanged; likewise write_input_register.
WriteThenRead ==
    /\ last.op = "write_holding_register" =>
          WriteKept("h", MbSlave.holding_registers,
                    read_holding_register(modbusServer, TheSlave, last.address))
    /\ last.op = "write_input_register" =>
          WriteKept("i", MbSlave.input_registers,
                    read_input_register(modbusServer, TheSlave, last.address))

(***************************************************************************)
(* Configuration: Config.check_interfaces (sdplc/schemas.py) and the       *)
(* loading of the configuration file by SDPLC.init (sdplc/sdplc.py).       *)
(***************************************************************************)

\* Optional[List[...]]: None, or a list
NoneList == [none |-> TRUE, items |-> <<>>]

ListOf(items) == [none |-> FALSE, items |-> items]

\* the truth value of an optional list: None and [] are false
Truthy(l) == ~l.none /\ Len(l.items) > 0

\* x in l
In(x, l) == \E k \in 1..Len(l.items) : l.items[k] = x

\* the values of Config.north and Config.south
Interfaces ==
    {NoneList, ListOf(<<>>), ListOf(<<"OPCUA">>), ListOf(<<"ModBus">>),
     ListOf(<<"OPCUA", "ModBus">>)}

\* the configuration files tried: the interfaces, whether the modbus section
\* is absent, an IP or a serial configuration, and whether the opcua and
\* nodes sections are present
ConfigFiles ==
    [north : Interfaces, south : Interfaces,
     modbus : {"None", "ip", "serial"}, opcua : BOOLEAN, nodes : BOOLEAN]

\* Config.check_interfaces without the two tests for a protocol enabled on
\* both interfaces
check_interfaces_sections_only(c) ==
    IF ~Truthy(c.north) /\ ~Truthy(c.south) THEN Raise("ValidationError", c)
    ELSE IF Truthy(c.north) /\ In("OPCUA", c.north) /\ ~c.opcua
    THEN Raise("ValidationError", c)
    ELSE IF Truthy(c.south) /\ In("OPCUA", c.south) /\ ~c.opcua
    THEN Raise("ValidationError", c)
    ELSE IF Truthy(c.north) /\ In("ModBus", c.north) /\ c.modbus = "None"
    THEN Raise("ValidationError", c)
    ELSE IF Truthy(c.south) /\ In("ModBus", c.south) /\ c.modbus = "None"
    THEN Raise("ValidationError", c)
    ELSE IF c.nodes /\ ~Truthy(c.north) THEN Raise("ValidationError", c)
    ELSE IF Truthy(c.north) /\ In("ModBus", c.north) /\ c.modbus # "ip"
    THEN Raise("ValidationError", c)
    ELSE Ok(c)

\* Config.check_interfaces: the ValueError of the validator reaches the
\* caller of Config(...) as a ValidationError
check_interfaces(c) ==
    IF ~Truthy(c.north) /\ ~Truthy(c.south) THEN Raise("ValidationError", c)
    ELSE IF Truthy(c.north) /\ Truthy(c.south)
            /\ In("OPCUA", c.north) /\ In("OPCUA", c.south)
    THEN Raise("ValidationError", c)
    ELSE IF Truthy(c.north) /\ Truthy(c.south)
            /\ In("ModBus", c.north) /\ In("ModBus", c.south)
    THEN Raise("ValidationError", c)
    ELSE IF Truthy(c.north) /\ In("OPCUA", c.north) /\ ~c.opcua
    THEN Raise("ValidationError", c)
    ELSE IF Truthy(c.south) /\ In("OPCUA", c.south) /\ ~c.opcua
    THEN Raise("ValidationError", c)
    ELSE IF Truthy(c.north) /\ In("ModBus", c.north) /\ c.modbus = "None"
    THEN Raise("ValidationError", c)
    ELSE IF Truthy(c.south) /\ In("ModBus", c.south) /\ c.modbus = "None"
    THEN Raise("ValidationError", c)
    ELSE IF c.nodes /\ ~Truthy(c.north) THEN Raise("ValidationError", c)
    ELSE IF Truthy(c.north) /\ In("ModBus", c.north) /\ c.modbus # "ip"
    THEN Raise("ValidationError", c)
    ELSE Ok(c)

\* SDPLC.init(config_file) up to the first use of the configuration: a
\* ValidationError of Config(**config) is logged and raised again, leaving
\* self.config as it was; a valid configuration is assigned, and the server
\* set-up that follows reads self.config.server, which the Config of
\* schemas.py does not declare
LoadConfig(file) ==
    /\ LET r == check_interfaces(file)
       IN  /\ config' = IF r.ok THEN r.val ELSE config
           /\ last' = [op |-> "init", file |-> file, before |-> config,
                       err |-> IF r.ok THEN "AttributeError" ELSE r.err]
    /\ UNCHANGED <<codecVars, serverVars, nodes, reconcilers, upstreamModbus,
                   upstreamOpcua, variables, browse, modbusClient,
                   opcuaClient, writer>>

\* the engine as constructed, no configuration file loaded yet
ConfigInit == ServersIdle /\ SdplcIdle /\ PlcIdle /\ CodecIdle /\ ClientsIdle

ConfigNext == \E file \in ConfigFiles : LoadConfig(file)

SpecConfig == ConfigInit /\ [][ConfigNext]_vars

\* the file of the last init enables protocol p on both interfaces
BothSides(p) == In(p, last.file.north) /\ In(p, last.file.south)

\* nothing of the engine was set up: no server initialised or started, no
\* node added, the configuration as it was before the call
NothingSetUp ==
    /\ modbusServer = SimPLCModBus
    /\ opcuaServer = SDPLCOPCUAServer
    /\ ~started
    /\ nodes = <<>> /\ reconcilers = {}
    /\ config = last.before

\* C15: a configuration that names the same protocol for the server and the
\* client role is rejected when it is validated, before any server is
\* initialised or started and before any node is added.
SameProtocolRejected ==
    (last.op = "init" /\ (BothSides("OPCUA") \/ BothSides("ModBus"))) =>
        last.err = "ValidationError" /\ NothingSetUp

\* C15 witness: a file with OPC UA on both interfaces and an opcua section,
\* so that no other test of the validator applies, was rejected.
SameProtocolRejectedWitness ==
    /\ last.op = "init"
    /\ last.file.north = ListOf(<<"OPCUA">>)
    /\ last.file.south = ListOf(<<"OPCUA">>)
    /\ last.file.opcua /\ last.file.modbus = "None" /\ ~last.file.nodes
    /\ last.err = "ValidationError"
    /\ NothingSetUp

(***************************************************************************)
(* Registry harness (sdplc/sdplc.py, sdplc/schemas.py): any node the Node  *)
(* schema accepts is added, any number of times, and any value is written. *)
(***************************************************************************)

\* a float value
PyFloat(v) == [t |-> "float", v |-> v]

\* Node.check_modbus_type: the validator of the Node schema
check_modbus_type(n) ==
    IF ~n.modbus.present THEN Ok(n)
    ELSE IF n.modbus.type \in {"c", "d"} /\ n.value.t # "bool"
    THEN Raise("ValidationError", n)
    ELSE IF n.modbus.type \in {"h", "i"} /\ n.value.t \notin {"bool", "int", "float"}
    THEN Raise("ValidationError", n)
    ELSE Ok(n)

\* the nodes a caller may try to declare: Relay is a coil with an integer
\* value, Temp a 16-bit holding register with a float value, Valve has no
\* binding
Declarations ==
    {Node("Blender", PyBool(FALSE), ModBusRegConfig(0, 0, "c", 16),
          OPCUANodeConfig("plant", "root")),
     Node("Relay", PyInt(1), ModBusRegConfig(0, 1, "c", 16),
          OPCUANodeConfig("plant", "root")),
     Node("Level", PyInt(7), ModBusRegConfig(0, 0, "h", 16),
          OPCUANodeConfig("plant", "root")),
     Node("Temp", PyFloat(3), ModBusRegConfig(0, 1, "h", 16),
          OPCUANodeConfig("plant", "root")),
     Node("Valve", PyBool(FALSE), NoModbus, NoOpcua)}

\* the Node objects that exist: the declarations the validator accepts
RegistryPool == {n \in Declarations : check_modbus_type(n).ok}

RegistryNames == {n.qualified_name : n \in RegistryPool}

\* the values written: a bool, an int and a float
AnyVals == {PyBool(TRUE), PyInt(7), PyFloat(3)}

RegistryNext ==
    \/ \E n \in RegistryPool : AddNode(n)
    \/ Start
    \/ \E i \in 1..Len(nodes) : SyncNode(i)
    \/ \E name \in RegistryNames : ReadNode(name)
    \/ \E name \in RegistryNames, value \in AnyVals : write_node(name, value)

SpecRegistry == Init /\ [][RegistryNext]_vars

\* the node the last add_Node was called with
LastAdded == nodes[Len(nodes)]

\* a holding or input register of 16 bits with a float value
Float16(n) ==
    /\ n.modbus.present /\ n.modbus.type \in {"h", "i"}
    /\ n.modbus.register_size = 16
    /\ n.value.t = "float"

\* C16: add_node of a node bound to a holding or input register of size 16
\* whose value is a float fails, under every configuration of the server
\* and client roles.
Float16Rejected ==
    (last.op = "add" /\ Float16(LastAdded)) => last.err # ""

\* the value the node called name was declared with
Declared0(name) == (CHOOSE n \in RegistryPool : n.qualified_name = name).value

\* the variant of node n is the one it was created with, and the one its
\* Modbus kind asks for
VariantKept(n) ==
    /\ n.value.t = Declared0(n.qualified_name).t
    /\ (n.modbus.present /\ n.modbus.type \in {"c", "d"}) => n.value.t = "bool"
    /\ (n.modbus.present /\ n.modbus.type \in {"h", "i"})
          => n.value.t \in {"int", "float"}

\* C17: the variant (bool, int or float) of a node's value is fixed at
\* creation and consistent with its Modbus kind in every reachable state; a
\* write_node with a value of another type is rejected or normalised to the
\* declared variant, never stored as given.
VariantFixed == \A i \in 1..Len(nodes) : VariantKept(nodes[i])

\* C18: qualified_name is unique in the registry: after any sequence of
\* add_node calls no two nodes of the registry share a qualified_name.
NamesUnique ==
    \A i, j \in 1..Len(nodes) :
        i # j => nodes[i].qualified_name # nodes[j].qualified_name

\* C19: every node in the registry has at least one of an OPC UA binding
\* and a Modbus binding; a node with neither never enters the registry.
HasBinding ==
    \A i \in 1..Len(nodes) : nodes[i].opcua.present \/ nodes[i].modbus.present

(***************************************************************************)
(* Claims on the role-based engine about failing adds and reconcilers.     *)
(***************************************************************************)

\* C23: every node added to the registry has a reconciler registered (at
\* priority 1, from t = 0 on, firing every tick between the events of
\* priority 0 and those of priority 2).
EveryNodeReconciled == \A i \in 1..Len(nodes) : i \in reconcilers

\* the positions of the registry that hold a node called name
Registered(name) == {i \in 1..Len(nodes) : nodes[i].qualified_name = name}

\* C24: when the OPC UA server cannot resolve the namespace or the parent
\* object while a node is added, add_node fails and afterwards the node is
\* not in the registry, no variable is recorded for it and no reconciler is
\* registered for it.
UnresolvedAddLeavesNothing ==
    (last.op = "add" /\ last.err = "KeyError") =>
        /\ Registered(last.name) = {}
        /\ last.name \notin DOMAIN opcuaServer.variables
        /\ Registered(last.name) \cap reconcilers = {}

(***************************************************************************)
(* Word harness: a value with a width, and a word sequence with a kind,    *)
(* are drawn; encoder is applied to the former and each of the two         *)
(* decoders (sdplc/modbus/__init__.py and SimPLCModBus of sdplc/modbus.py) *)
(* to the latter.                                                          *)
(***************************************************************************)

\* the word sequences given to the decoders have 0..MaxWords words
MaxWords == 8

\* the values given to encoder: integers and floats
CodecVals == {PyInt(16909060), PyInt(-2), PyInt(7), PyFloat(3), PyFloat(-5)}

\* n words: all 0x0000, all 0xFFFF, or counting up from 0x0102 (the last
\* not for the lengths decoded as 64 bits, whose value would leave the
\* integers of the model)
WordSeqs ==
    {[k \in 1..n |-> 0] : n \in 0..MaxWords}
        \cup {[k \in 1..n |-> 65535] : n \in 0..MaxWords}
        \cup {[k \in 1..n |-> 258 + k] : n \in {m \in 1..MaxWords : m % 4 # 0}}

Kinds == {"int", "float"}

WordsInit ==
    /\ ServersIdle /\ SdplcIdle /\ PlcIdle /\ ClientsIdle
    /\ cpc = "in"
    /\ \E value \in CodecVals, size \in Sizes, bo \in Endian, wo \in Endian,
          bits \in WordSeqs, type \in Kinds :
            cin = [value |-> value, size |-> size, byte_order |-> bo,
                   word_order |-> wo, bits |-> bits, type |-> type]
    /\ cregs = [ok |-> FALSE, err |-> "", regs |-> <<>>]
    /\ cout = [ok |-> FALSE, err |-> "", value |-> PyInt(0)]

\* encoder(value, size, byte_order, word_order)
WordsEncode ==
    /\ cpc = "in"
    /\ cregs' = encoder(cin.value, cin.size, cin.byte_order, cin.word_order)
    /\ cpc' = "enc"
    /\ UNCHANGED <<cin, cout, serverVars, sdplcVars, variables, browse, modbusClient,
                   opcuaClient, writer>>

\* decoder(bits, type, byte_order, word_order)
WordsDecode ==
    /\ cpc = "in"
    /\ cout' = decoder(cin.bits, cin.type, cin.byte_order, cin.word_order)
    /\ cpc' = "dec"
    /\ UNCHANGED <<cin, cregs, serverVars, sdplcVars, variables, browse, modbusClient,
                   opcuaClient, writer>>

\* modbus.decoder(bits, type), with the orders of the singleton
WordsSimPLCModBusDecode ==
    /\ cpc = "in"
    /\ cout' = SimPLCModBusDecoder(cin.bits, cin.type, cin.byte_order,
                                   cin.word_order)
    /\ cpc' = "simdec"
    /\ UNCHANGED <<cin, cregs, serverVars, sdplcVars, variables, browse, modbusClient,
                   opcuaClient, writer>>

WordsNext == WordsEncode \/ WordsDecode \/ WordsSimPLCModBusDecode

SpecWords == WordsInit /\ [][WordsNext]_vars

\* C25: encoding a float at width 16 fails with ValueError ("16 bit float is
\* not supported.") and produces no words, whatever the byte and word order.
Float16Unsupported ==
    (cpc = "enc" /\ cin.value.t = "float" /\ cin.size = 16) =>
        /\ ~cregs.ok
        /\ cregs.err = "ValueError"
        /\ cregs.regs = <<>>

\* C25 witness: the float 3.0 has been given to encoder at width 16 with
\* little byte order and big word order, and the call failed.
Float16UnsupportedWitness ==
    /\ cpc = "enc"
    /\ cin.value = PyFloat(3) /\ cin.size = 16
    /\ cin.byte_order = "little" /\ cin.word_order = "big"
    /\ ~cregs.ok

\* C26: a decoder returns a value for an Int sequence of 1, 2 or 4 words,
\* and fails with ValueError, returning no value, for a sequence of any
\* other length, of kind Int or Float.
DecodeWidths ==
    cpc \in {"dec", "simdec"} =>
        /\ (cin.type = "int" /\ Len(cin.bits) \in {1, 2, 4}) => cout.ok
        /\ Len(cin.bits) \notin {1, 2, 4} =>
               (~cout.ok /\ cout.err = "ValueError")

\* the most significant 16 bits of value at width size
MostSignificantWord(value, size) ==
    IF value.t = "float" THEN PackFloatWords(value.v, size)[1]
    ELSE ShiftRight8(value.v, size \div 8 - 2) % 65536

\* a word as the register that holds it under byte_order
InByteOrder(word, byte_order) ==
    IF byte_order = "little" THEN (word % 256) * 256 + word \div 256 ELSE word

\* C27: with little byte order and little word order the Int32 0x01020304
\* is encoded as [0x0403, 0x0201]; with big word order the first word of a
\* value of two or four words is its most significant word.
WordOrder ==
    (cpc = "enc" /\ cregs.ok) =>
        /\ (/\ cin.value = PyInt(16909060) /\ cin.size = 32
            /\ cin.byte_order = "little" /\ cin.word_order = "little")
               => cregs.regs = <<1027, 513>>
        /\ (cin.word_order = "big" /\ cin.size > 16) =>
               cregs.regs[1] = InByteOrder(
                   MostSignificantWord(cin.value, cin.size), cin.byte_order)

\* C27 witness: 0x01020304 has been encoded at width 32 with little byte and
\* word order, and the words are [0x0403, 0x0201].
WordOrderWitness ==
    /\ cpc = "enc" /\ cregs.ok
    /\ cin.value = PyInt(16909060) /\ cin.size = 32
    /\ cin.byte_order = "little" /\ cin.word_order = "little"
    /\ cregs.regs = <<1027, 513>>

(***************************************************************************)
(* OPC UA client harness: SDPLCOPCUAClient.read and write                  *)
(* (sdplc/opcua/client.py) against an upstream server with two variables,  *)
(* of which the second is not writable, while another writer changes the   *)
(* variables too.                                                          *)
(***************************************************************************)

\* the node ids the upstream server knows, and those a client may write
ClientIds == {1, 2}

WritableIds == {1}

\* the node ids given to read and write (3 is unknown upstream)
ClientArgs == {1, 2, 3}

ClientVals == {PyInt(0), PyInt(7), PyBool(TRUE)}

\* nothing written yet to any node: every node holds its initial value v
NoWrites(v) == [id \in ClientIds |-> [set |-> FALSE, value |-> v]]

\* what the last call did; history is, per node, whether it was written and
\* the value of the latest completed write (its initial value before)
ClLast(op, nodeid, value, returned, err, history) ==
    [op |-> op, nodeid |-> nodeid, value |-> value, returned |-> returned,
     err |-> err, history |-> history]

ClientInit ==
    /\ modbusServer = SimPLCModBus
    /\ opcuaServer = SDPLCOPCUAServer
    /\ started = FALSE
    /\ config = [server |-> "None", client |-> "OPCUA",
                 modbus_client_config |-> FALSE,
                 byte_order |-> "big", word_order |-> "big"]
    /\ nodes = <<>>
    /\ reconcilers = {}
    /\ upstreamModbus = [tbl \in {"c", "d", "h", "i"} |-> [k \in UpstreamKeys |-> 0]]
    /\ \E v \in {PyInt(0), PyBool(FALSE)} :
          /\ upstreamOpcua = [id \in ClientIds |-> v]
          /\ last = ClLast("none", 0, PyInt(0), PyInt(0), "", NoWrites(v))
    /\ CodecIdle /\ PlcIdle /\ ClientsIdle

otherThanClient ==
    <<codecVars, serverVars, config, nodes, reconcilers, upstreamModbus,
      variables, browse, modbusClient, writer>>

\* the client after a call that began with connect() and ended with err:
\* an unreachable server leaves no connection; an exception of read_value
\* or write_value propagates past the disconnect() that follows it
AfterCall(err) ==
    [connected |-> err \notin {"", "ConnectionError"}]

\* SDPLCOPCUAClient.connect, as add_Node and setUp of the tests call it
OpcuaClientConnect ==
    /\ \E up \in BOOLEAN :
         /\ opcuaClient' = [connected |-> up]
         /\ last' = ClLast("connect", 0, PyInt(0), PyInt(0),
                           IF up THEN "" ELSE "ConnectionError", last.history)
    /\ UNCHANGED upstreamOpcua
    /\ UNCHANGED otherThanClient

\* SDPLCOPCUAClient.disconnect, as tearDown of the tests calls it
OpcuaClientDisconnect ==
    /\ opcuaClient.connected
    /\ opcuaClient' = [connected |-> FALSE]
    /\ last' = ClLast("disconnect", 0, PyInt(0), PyInt(0), "", last.history)
    /\ UNCHANGED upstreamOpcua
    /\ UNCHANGED otherThanClient

\* a variant of WriteValue that leaves the variable as it is
WriteValueDropped(space, nodeid, value) == space

\* node.write_value(value) as the upstream server applies it
WriteValue(space, nodeid, value) == [space EXCEPT ![nodeid] = value]

\* node.read_value()
ReadValue(space, nodeid) == space[nodeid]

\* SDPLCOPCUAClient.write: connect, write the value, disconnect.  A value of
\* another type than the variable's is refused by some servers and stored
\* by others.
OpcuaClientWrite(nodeid, value) ==
    /\ \E up \in BOOLEAN, strict \in BOOLEAN :
         LET err == IF ~up THEN "ConnectionError"
                    ELSE IF nodeid \notin ClientIds THEN "BadNodeIdUnknown"
                    ELSE IF nodeid \notin WritableIds THEN "BadUserAccessDenied"
                    ELSE IF strict /\ value.t # upstreamOpcua[nodeid].t
                         THEN "BadTypeMismatch"
                    ELSE ""
             after == IF err = "" THEN WriteValue(upstreamOpcua, nodeid, value)
                      ELSE upstreamOpcua
         IN  /\ upstreamOpcua' = after
             /\ opcuaClient' = AfterCall(err)
             /\ last' = ClLast("write", nodeid, value, PyInt(0), err,
                               IF err = ""
                               THEN [last.history EXCEPT ![nodeid] =
                                        [set |-> TRUE, value |-> value]]
                               ELSE last.history)
    /\ UNCHANGED otherThanClient

\* SDPLCOPCUAClient.read: connect, read the value, disconnect, return it
OpcuaClientRead(nodeid) ==
    /\ \E up \in BOOLEAN :
         LET err == IF ~up THEN "ConnectionError"
                    ELSE IF nodeid \notin ClientIds THEN "BadNodeIdUnknown"
                    ELSE ""
         IN  /\ opcuaClient' = AfterCall(err)
             /\ last' = ClLast("read", nodeid, PyInt(0),
                               IF err = "" THEN ReadValue(upstreamOpcua, nodeid)
                               ELSE PyInt(0),
                               err, last.history)
    /\ UNCHANGED upstreamOpcua
    /\ UNCHANGED otherThanClient

\* another writer (the upstream's own logic, another client) writes a node
OpcuaOtherWrite(nodeid, value) ==
    /\ nodeid \in ClientIds
    /\ upstreamOpcua' = [upstreamOpcua EXCEPT ![nodeid] = value]
    /\ last' = ClLast("other", nodeid, value, PyInt(0), "",
                      [last.history EXCEPT ![nodeid] =
                          [set |-> TRUE, value |-> value]])
    /\ UNCHANGED opcuaClient
    /\ UNCHANGED otherThanClient

ClientNext ==
    \/ \E nodeid \in ClientArgs, value \in ClientVals :
          OpcuaClientWrite(nodeid, value)
    \/ \E nodeid \in ClientArgs : OpcuaClientRead(nodeid)
    \/ \E nodeid \in ClientIds, value \in {PyInt(9)} :
          OpcuaOtherWrite(nodeid, value)
    \/ OpcuaClientConnect
    \/ OpcuaClientDisconnect

SpecOpcuaClient == ClientInit /\ [][ClientNext]_vars

\* C28: a read that completes returns the value of the latest completed
\* write to that node, and the node's initial value when nothing was
\* written to it yet.
WriteReadRoundTrip ==
    (last.op = "read" /\ last.err = "") =>
        last.returned = last.history[last.nodeid].value

\* C40: a read or a write of the OPC UA client is called on a client
\* that is not connected, so that its connect() opens the connection, and
\* leaves the client disconnected when it ends, whether it returns or raises
SessionPerCall ==
    [][last'.op \in {"read", "write"} =>
          ~opcuaClient.connected /\ ~opcuaClient'.connected]_vars

\* C28 witness: the client wrote 7 to the writable node (no other writer
\* writes 7) and a later read of that node has returned 7.
WriteReadRoundTripWitness ==
    /\ last.op = "read" /\ last.err = "" /\ last.nodeid = 1
    /\ last.history[1].set
    /\ last.returned = PyInt(7)

(***************************************************************************)
(* Browse harness: one call of SDPLCOPCUAClient.browse_and_find_node       *)
(* (sdplc/opcua/client.py) on an address space drawn from all the spaces   *)
(* of a few nodes, cycles and self-references included.  A step is one     *)
(* iteration of the loop over the references of the node on top of the     *)
(* stack of recursive_browse calls.                                        *)
(***************************************************************************)

\* the address spaces have the nodes 0..MaxBrowseNode
MaxBrowseNode == 2

\* self.client.nodes.objects
ObjectsNode == 0

BrowseNodes == 0..MaxBrowseNode

\* the forward references a node may have: none, one, or two in id order
RefLists ==
    {<<>>} \cup {<<a>> : a \in BrowseNodes}
           \cup {<<p[1], p[2]>> :
                     p \in {q \in BrowseNodes \X BrowseNodes : q[1] < q[2]}}

\* the browse name of every node
BrowseNameOf(id) ==
    IF id = ObjectsNode THEN "Objects"
    ELSE IF id = 1 THEN "test" ELSE "testVariable"

BrowseNames == {"Objects", "test", "testVariable", "missing"}

\* found_node.nodeid.to_string(), or None
NoneId == [none |-> TRUE, node_id |-> ""]

NodeIdString(id) == [none |-> FALSE, node_id |-> "i=" \o ToString(id)]

BrowseInit ==
    /\ ServersIdle /\ SdplcIdle /\ PlcIdle /\ CodecIdle
    /\ modbusClient = SDPLCModBusClient
    /\ opcuaClient = SDPLCOPCUAClient /\ writer = NoWriter
    /\ \E refs \in [BrowseNodes -> RefLists], name \in BrowseNames :
          browse = [pc |-> "ready", refs |-> refs, name |-> name,
                    stack |-> <<>>, visited_nodes |-> {}, result |-> NoneId]

otherThanBrowse ==
    <<codecVars, serverVars, sdplcVars, variables, modbusClient, opcuaClient,
      writer>>

\* a variant of NameMatches under which no browse name ever matches
NameMatchesNever(child, name) == FALSE

\* child_browse_name.Name == browse_name
NameMatches(child, name) == BrowseNameOf(child) = name

\* browse_and_find_node up to the first iteration: recursive_browse(objects)
\* finds the Objects node unvisited and marks it
BrowseEnter ==
    /\ browse.pc = "ready"
    /\ browse' = [browse EXCEPT !.pc = "loop",
                                !.visited_nodes = {ObjectsNode},
                                !.stack = <<[node |-> ObjectsNode, k |-> 1]>>]
    /\ UNCHANGED otherThanBrowse

\* one iteration of "for ref in references" in the innermost call; a call
\* whose references are exhausted returns None to its caller, and the
\* outermost return ends browse_and_find_node
BrowseIterate ==
    /\ browse.pc = "loop"
    /\ LET d == Len(browse.stack)
           top == browse.stack[d]
           refs == browse.refs[top.node]
       IN  IF top.k > Len(refs)
           THEN browse' =
                  IF d = 1
                  THEN [browse EXCEPT !.pc = "done", !.stack = <<>>,
                                      !.result = NoneId]
                  ELSE [browse EXCEPT !.stack = SubSeq(@, 1, d - 1)]
           ELSE LET child == refs[top.k]
                IN  IF NameMatches(child, browse.name)
                    THEN \* the child is returned through every caller
                         browse' = [browse EXCEPT !.pc = "done", !.stack = <<>>,
                                                  !.result = NodeIdString(child)]
                    ELSE IF child \in browse.visited_nodes
                    THEN \* recursive_browse(child) returns None at once
                         browse' = [browse EXCEPT !.stack[d].k = @ + 1]
                    ELSE browse' =
                           [browse EXCEPT
                              !.visited_nodes = @ \cup {child},
                              !.stack = [@ EXCEPT ![d].k = @ + 1]
                                           \o <<[node |-> child, k |-> 1]>>]
    /\ UNCHANGED otherThanBrowse

BrowseNext == BrowseEnter \/ BrowseIterate

SpecBrowse == BrowseInit /\ [][BrowseNext]_vars

\* the event loop runs the coroutine as long as it has a step to take
SpecBrowseLive == BrowseInit /\ [][BrowseNext]_vars /\ WF_vars(BrowseNext)

\* the nodes that the references of the nodes of set from point to
Targets(refs, from) ==
    UNION {{refs[n][k] : k \in 1..Len(refs[n])} : n \in from}

RECURSIVE ReachableFrom(_, _)
\* seen and every node reachable from it over forward references
ReachableFrom(refs, seen) ==
    LET more == seen \cup Targets(refs, seen)
    IN  IF more = seen THEN seen ELSE ReachableFrom(refs, more)

\* the nodes called name that a path of one or more forward references
\* leads to from the Objects folder
ReachableNamed(refs, name) ==
    {n \in Targets(refs, ReachableFrom(refs, {ObjectsNode})) :
        BrowseNameOf(n) = name}

\* the call has returned the node id of a reachable node called name, or
\* None when there is none
BrowseReturned ==
    /\ browse.pc = "done"
    /\ IF ReachableNamed(browse.refs, browse.name) = {}
       THEN browse.result = NoneId
       ELSE \E n \in ReachableNamed(browse.refs, browse.name) :
               browse.result = NodeIdString(n)

\* C29: on every address space, cyclic ones included, browse_and_find_node
\* eventually returns, and it returns the node id string of a node called
\* name that is reachable from the Objects folder, or None when no such
\* node is reachable.
BrowseTerminates == <>BrowseReturned

\* C29 witness: in a space where Objects refers to itself, Objects and node
\* 1 refer to each other and node 2 refers to itself, the call for
\* "testVariable" has returned the id of node 2.
BrowseTerminatesWitness ==
    /\ browse.pc = "done"
    /\ browse.refs[0] = <<0, 1>> /\ browse.refs[1] = <<0, 2>>
    /\ browse.refs[2] = <<2>>
    /\ browse.name = "testVariable"
    /\ browse.result = NodeIdString(2)

(***************************************************************************)
(* Modbus client harness: the session of SDPLCModBusClient                 *)
(* (sdplc/modbus/client.py): config, connect, and the awaited read_* and   *)
(* write_* calls, with an upstream device that may be unreachable.         *)
(***************************************************************************)

\* ModBusIPConfig (tcp, udp, tls with its certificate and key) and
\* ModBusSerialConfig, as the schemas validate them
ModBusClientConfigs ==
    {[none |-> FALSE, kind |-> "ip", type |-> t] : t \in {"tcp", "udp", "tls"}}
        \cup {[none |-> FALSE, kind |-> "serial", type |-> ""]}

\* the read_* and write_* methods of the client
ClientMethods ==
    {"read_input_registers", "read_holding_registers",
     "write_holding_registers", "read_coils", "write_coils", "write_coil",
     "read_discrete_inputs"}

\* what the last call of the client did: configured and connected are the
\* state it found, sent whether a request went to the upstream device
MbcLast(op, configured, connected, err, sent) ==
    [op |-> op, configured |-> configured, connected |-> connected,
     err |-> err, sent |-> sent]

ModbusClientInit ==
    /\ modbusServer = SimPLCModBus
    /\ opcuaServer = SDPLCOPCUAServer
    /\ started = FALSE
    /\ SdplcIdle /\ PlcIdle /\ CodecIdle
    /\ browse = NoBrowse
    /\ modbusClient = SDPLCModBusClient
    /\ opcuaClient = SDPLCOPCUAClient /\ writer = NoWriter
    /\ last = MbcLast("none", FALSE, FALSE, "", FALSE)

otherThanModbusClient ==
    <<codecVars, serverVars, config, nodes, reconcilers, upstreamModbus,
      upstreamOpcua, variables, browse, opcuaClient, writer>>

\* SDPLCModBusClient.config
ModbusClientConfig(c) ==
    /\ modbusClient' = [modbusClient EXCEPT !._config = c]
    /\ last' = MbcLast("config", ~modbusClient._config.none,
                       modbusClient._client.connected, "", FALSE)
    /\ UNCHANGED otherThanModbusClient

\* SDPLCModBusClient.connect: the pymodbus client is created and assigned
\* first, then connected; up is whether the upstream device answers, and
\* raises whether pymodbus reports a failed connection by an exception
ModbusClientConnect ==
    /\ \E up \in BOOLEAN, raises \in BOOLEAN :
         IF modbusClient._config.none
         THEN /\ last' = MbcLast("connect", FALSE,
                                 modbusClient._client.connected,
                                 "ValueError", FALSE)
              /\ UNCHANGED modbusClient
         ELSE /\ modbusClient' = [modbusClient EXCEPT
                     !._client = [none |-> FALSE, connected |-> up]]
              /\ last' = MbcLast("connect", TRUE,
                                 modbusClient._client.connected,
                                 IF ~up /\ raises THEN "ConnectionException"
                                 ELSE "", FALSE)
    /\ UNCHANGED otherThanModbusClient

\* if not self._client
NotClient(client) == client.none

\* the awaited read_* and write_* methods: ValueError without a client
\* object, else the call is handed to the pymodbus client, which raises
\* ConnectionException when it has no connection
ModbusClientCall(fn) ==
    /\ last' = MbcLast(fn, ~modbusClient._config.none,
                       modbusClient._client.connected,
                       IF NotClient(modbusClient._client) THEN "ValueError"
                       ELSE IF ~modbusClient._client.connected
                            THEN "ConnectionException" ELSE "",
                       ~NotClient(modbusClient._client)
                           /\ modbusClient._client.connected)
    /\ UNCHANGED modbusClient
    /\ UNCHANGED otherThanModbusClient

ModbusClientNext ==
    \/ \E c \in ModBusClientConfigs : ModbusClientConfig(c)
    \/ ModbusClientConnect
    \/ \E fn \in ClientMethods : ModbusClientCall(fn)

SpecModbusClient == ModbusClientInit /\ [][ModbusClientNext]_vars

\* C30: a connect without a configuration fails with ValueError, and a
\* read_* or write_* call made while no connect has succeeded fails with
\* ValueError and sends nothing to the upstream device.
SessionOrder ==
    /\ (last.op = "connect" /\ ~last.configured) => last.err = "ValueError"
    /\ (last.op \in ClientMethods /\ ~last.connected) =>
           (last.err = "ValueError" /\ ~last.sent)

(***************************************************************************)
(* Namespace harness: the engine of sdplc/sdplc.py with nodes that share   *)
(* OPC UA namespaces and parent object names in every combination.         *)
(***************************************************************************)

\* at most MaxPlantNodes nodes are added
MaxPlantNodes == 3

\* nodes in the namespaces plant and site, under the objects root and tank
PlantNodes ==
    {Node("Blender", PyBool(FALSE), ModBusRegConfig(0, 0, "c", 16),
          OPCUANodeConfig("plant", "root")),
     Node("Flow", PyBool(FALSE), ModBusRegConfig(0, 1, "c", 16),
          OPCUANodeConfig("site", "tank")),
     Node("Level", PyBool(TRUE), ModBusRegConfig(0, 2, "c", 16),
          OPCUANodeConfig("plant", "tank")),
     Node("Valve", PyBool(TRUE), ModBusRegConfig(0, 3, "c", 16),
          OPCUANodeConfig("site", "root"))}

PlantNames == {n.qualified_name : n \in PlantNodes}

\* add_Node for a node that is not in the registry yet
AddPlantNode(n) ==
    /\ ~started
    /\ Len(nodes) < MaxPlantNodes
    /\ \A i \in 1..Len(nodes) : nodes[i].qualified_name # n.qualified_name
    /\ add_Node(n)

PlantNext ==
    \/ \E n \in PlantNodes : AddPlantNode(n)
    \/ Start
    \/ \E i \in 1..Len(nodes) : SyncNode(i)
    \/ \E name \in PlantNames, value \in BoolVals : ExtOpcuaWrite(name, value)

SpecPlant == Init /\ [][PlantNext]_vars

\* the namespace URI add_Node registers for the OPC UA binding b
NamespaceOf(b) == "http://ulfaric/SDPLC/" \o b.namespace

\* C33: after add_node of a node with an OPC UA binding has succeeded under
\* an OPC UA server, the namespace of the binding is registered, its parent
\* object is registered in that namespace, and the variable of the node
\* exists under that object; also when the namespace was registered before
\* with another parent object.
AddRegistersParent ==
    (/\ last.op = "add" /\ last.err = ""
     /\ config.server = "OPCUA" /\ LastAdded.opcua.present) =>
        LET b == LastAdded.opcua
            parent == [bname |-> b.node_qualified_name,
                       namespace |-> NamespaceOf(b)]
        IN  /\ NamespaceOf(b) \in opcuaServer.namespaces
            /\ b.node_qualified_name \in DOMAIN opcuaServer.nodes
            /\ opcuaServer.nodes[b.node_qualified_name] = parent
            /\ LastAdded.qualified_name \in DOMAIN opcuaServer.variables
            /\ opcuaServer.variables[LastAdded.qualified_name].node = parent

(***************************************************************************)
(* Lazily created slaves.                                                  *)
(***************************************************************************)
\* the entries of a table that are occupied in old are occupied in new and
\* hold the same word, and the declarations of old are the first of new
TableKept(old_meta, old_mem, old_occ, new_meta, new_mem, new_occ) ==
    /\ Len(old_meta) <= Len(new_meta)
    /\ \A k \in 1..Len(old_meta) : new_meta[k] = old_meta[k]
    /\ \A k \in 1..Len(old_occ) :
          old_occ[k] => /\ k <= Len(new_occ) /\ new_occ[k]
                        /\ k <= Len(new_mem) /\ new_mem[k] = old_mem[k]

SlaveKept(old, new) ==
    /\ TableKept(old.coils, old.coils_memory, old.coils_memory_occupancy,
                 new.coils, new.coils_memory, new.coils_memory_occupancy)
    /\ TableKept(old.discrete_inputs, old.discrete_inputs_memory,
                 old.discrete_inputs_memory_occupancy,
                 new.discrete_inputs, new.discrete_inputs_memory,
                 new.discrete_inputs_memory_occupancy)
    /\ TableKept(old.holding_registers, old.holding_registers_memory,
                 old.holding_registers_memory_occupancy,
                 new.holding_registers, new.holding_registers_memory,
                 new.holding_registers_memory_occupancy)
    /\ TableKept(old.input_registers, old.input_registers_memory,
                 old.input_registers_memory_occupancy,
                 new.input_registers, new.input_registers_memory,
                 new.input_registers_memory_occupancy)

\* the slaves the nodes of the registry asked for
RequestedSlaves(ns) ==
    {ns[i].modbus.slave : i \in {i \in 1..Len(ns) : ns[i].modbus.present}}

TableLengths(s) ==
    {Len(s.coils_memory), Len(s.coils_memory_occupancy),
     Len(s.discrete_inputs_memory), Len(s.discrete_inputs_memory_occupancy),
     Len(s.holding_registers_memory),
     Len(s.holding_registers_memory_occupancy),
     Len(s.input_registers_memory), Len(s.input_registers_memory_occupancy)}

\* C37: every table and every occupancy bitmap of a slave has MemSize
\* entries in every reachable state, and an add_holding_register or
\* add_input_register whose window extends past the last entry fails
TablesKeepLength ==
    TheSlave \in DOMAIN modbusServer.slaves =>
        /\ TableLengths(MbSlave) = {MemSize}
        /\ (/\ last.op \in {"add_holding_register", "add_input_register"}
            /\ last.address + last.size \div 16 > MemSize) => ~last.ok

\* C36: an add_Node that fails because the address is occupied or the
\* width is not supported (both ValueError) leaves the registry of nodes,
\* the slaves with their declarations, tables and occupancy bitmaps, and
\* the reconcilers exactly as they were before the call
FailingAddWithoutEffect ==
    [][(last'.op = "add" /\ last'.err = "ValueError") =>
          /\ nodes' = nodes
          /\ modbusServer' = modbusServer
          /\ reconcilers' = reconcilers]_vars

\* C38: a write_node that raises because the node is unknown (ValueError)
\* or because a binding, the OPC UA node id or the client configuration is
\* missing (RuntimeError) leaves the value of every node and every protocol
\* view (the served Modbus tables, the served OPC UA variables, the
\* upstream devices) as before the call
RaisingWriteWithoutEffect ==
    [][(/\ last'.op = "write"
        /\ \/ last'.err = "RuntimeError"
           \/ last'.err = "ValueError" /\ NodeIndex(last'.name) = 0) =>
          /\ nodes' = nodes
          /\ modbusServer' = modbusServer
          /\ opcuaServer' = opcuaServer
          /\ upstreamOpcua' = upstreamOpcua
          /\ upstreamModbus' = upstreamModbus]_vars

(***************************************************************************)
(* Nodes added while the engine runs: add_Node is called again after the   *)
(* servers were started.                                                   *)
(***************************************************************************)
\* add_Node called by the program after start_modbus_server has run
AddNodeRunning(n) ==
    /\ started
    /\ Len(nodes) < MaxNodes
    /\ add_Node(n)

RunningNext ==
    \/ \E n \in Addable : AddNode(n)
    \/ Start
    \/ \E n \in Addable : AddNodeRunning(n)
    \/ \E i \in 1..Len(nodes) : SyncNode(i)

SpecRunning == Init /\ [][RunningNext]_vars

\* C35: once the Modbus server context is built, the coil or discrete
\* input of the node that was added last is served: reading its address
\* through the server, as the reconciler does, returns the value the node
\* was added with, whether it was added before or after the context was
\* built and whether or not its slave existed then
LateNodeServed ==
    (/\ started /\ config.server = "ModBus"
     /\ last.op = "add" /\ last.err = ""
     /\ LastAdded.modbus.present /\ LastAdded.modbus.type \in {"c", "d"}
     /\ LastAdded.value.t = "bool") =>
        LET r == SyncReadModbus(LastAdded)
        IN  r.ok /\ PyEq(r.val, LastAdded.value)

\* C39: where no external client and no upstream device writes (the only
\* handlers are add_Node, the start, the reconcilers, read_node and
\* write_node, and there is no client role), no execution of a reconciler
\* finds the served value different from node.value and adopts it
NoAdoptionWithoutExternalWrite ==
    (last.op = "sync" /\ config.client = "None") => ~last.adopted

(***************************************************************************)
(* Writer harness: write_holding_register / write_input_register of        *)
(* sdplc/modbus.py step by step, one setValues per step, on a slave with   *)
(* a holding and an input register of 32 bits, while a reader (a request   *)
(* to the Modbus server, a reconciler) reads the words of a register.      *)
(* All tasks share one event loop: another task runs only when the         *)
(* running one is at an await.                                             *)
(***************************************************************************)
\* 32-bit values whose two words all differ: <<1, 2>>, <<3, 4>>, <<5, 6>>
WideVals == {PyInt(65538), PyInt(196612), PyInt(327686)}

\* the address and the width of the two registers
WideRegister == [address |-> 0, size |-> 32]

\* the words of the register of table tbl: register.getValues(address, n)
WordsOf(mb, tbl) ==
    Slice(mb.slaves_context[TheSlave][tbl], WideRegister.address,
          WideRegister.address + WideRegister.size \div 16)

\* what the last step was; history is, per table, the word groups the
\* register was created or written with
WrLast(op, tbl, words, history) ==
    [op |-> op, tbl |-> tbl, words |-> words, history |-> history]

WriterInit ==
    /\ \E v \in WideVals :
         LET r == WideRegister
             a == create_slave(ModbusConfig(SimPLCModBus, "big", "big"),
                               TheSlave)
             b == create_holding_register(a, TheSlave, r.address, v, r.size)
             c == create_input_register(b.val, TheSlave, r.address, v, r.size)
             mb == ModbusInit(c.val)
         IN  /\ modbusServer = mb
             /\ last = WrLast("none", "h", <<>>,
                              [tbl \in {"h", "i"} |-> {WordsOf(mb, tbl)}])
    /\ opcuaServer = SDPLCOPCUAServer
    /\ started = TRUE
    /\ SdplcIdle /\ PlcIdle /\ CodecIdle
    /\ browse = NoBrowse /\ modbusClient = SDPLCModBusClient
    /\ opcuaClient = SDPLCOPCUAClient
    /\ writer = NoWriter

otherThanWriter ==
    <<codecVars, opcuaServer, started, config, nodes, reconcilers,
      upstreamModbus, upstreamOpcua, variables, browse, modbusClient,
      opcuaClient>>

\* a variant of AtSuspensionPoint under which the event loop may switch
\* to another task between any two statements
AtAnyPoint(w) == TRUE

\* whether the call w is at an await, where the event loop may run another
\* task: write_holding_register and write_input_register are plain
\* functions without an await, so only when no call is running
AtSuspensionPoint(w) == w.pc = "idle"

\* write_holding_register / write_input_register up to the loop: the
\* value is encoded
WriterEnter(tbl, value) ==
    /\ writer.pc = "idle"
    /\ LET bits == encoder(value, WideRegister.size, modbusServer.byte_order,
                           modbusServer.word_order)
       IN  /\ bits.ok
           /\ writer' = [pc |-> "loop", tbl |-> tbl, bits |-> bits.regs,
                         i |-> 0]
           /\ last' = WrLast("enter", tbl, bits.regs,
                             [last.history EXCEPT ![tbl] = @ \cup {bits.regs}])
    /\ UNCHANGED modbusServer
    /\ UNCHANGED otherThanWriter

\* one iteration of the loop: register.setValues(address + i, bits[i])
WriterSetValues ==
    /\ writer.pc = "loop"
    /\ writer.i < Len(writer.bits)
    /\ modbusServer' =
          [modbusServer EXCEPT !.slaves_context[TheSlave][writer.tbl] =
              SliceAssign(@, WideRegister.address + writer.i,
                          WideRegister.address + writer.i + 1,
                          <<writer.bits[writer.i + 1]>>)]
    /\ writer' = [writer EXCEPT !.i = @ + 1]
    /\ last' = WrLast("setValues", writer.tbl, <<>>, last.history)
    /\ UNCHANGED otherThanWriter

\* the end of the loop: the words are read back and the call returns
WriterReturn ==
    /\ writer.pc = "loop"
    /\ writer.i = Len(writer.bits)
    /\ writer' = NoWriter
    /\ last' = WrLast("return", writer.tbl, WordsOf(modbusServer, writer.tbl),
                      last.history)
    /\ UNCHANGED modbusServer
    /\ UNCHANGED otherThanWriter

\* another task reads the words of a register
RegisterRead(tbl) ==
    /\ AtSuspensionPoint(writer)
    /\ last' = WrLast("read", tbl, WordsOf(modbusServer, tbl), last.history)
    /\ UNCHANGED <<modbusServer, writer>>
    /\ UNCHANGED otherThanWriter

WriterNext ==
    \/ \E tbl \in {"h", "i"}, value \in WideVals : WriterEnter(tbl, value)
    \/ WriterSetValues
    \/ WriterReturn
    \/ \E tbl \in {"h", "i"} : RegisterRead(tbl)

SpecWriter == WriterInit /\ [][WriterNext]_vars

\* C31: the words a read of a two-word register returns are the words of
\* one value the register was created or written with, never the first
\* word of one value and the second word of another
ReadsWholeGroups ==
    last.op = "read" => last.words \in last.history[last.tbl]

\* C31 witness: the holding register was written with a second value, word
\* by word, and a read then returned the two words of that value
ReadsWholeGroupsWitness ==
    /\ last.op = "read" /\ last.tbl = "h"
    /\ Cardinality(last.history["h"]) = 2
    /\ last.words = <<3, 4>>
    /\ modbusServer.slaves[TheSlave].holding_registers_memory[1] = 1

====
